---------------------------- MODULE Spec2Model ----------------------------
(***************************************************************************)
(* Govee MCP command gateway: the tool handlers of the server (both the    *)
(* tools/call request handler and the registerTool callbacks), the token   *)
(* bucket limiter, the allowlist, the Cloud and LAN adapters and the       *)
(* capability translation of the Cloud adapter.                            *)
(*                                                                         *)
(* Units.  Times are milliseconds.  limiter.tokens is kept in thousandths  *)
(* of a token (TokenUnit), so that the refill elapsed/1000 * rps is exact. *)
(* The percent and kelvin ARGUMENTS of set_brightness / set_color_temp are *)
(* kept in tenths (a JS number may be fractional and the handler applies   *)
(* Math.round); every value inside a ControlCmd is a plain integer.        *)
(***************************************************************************)
EXTENDS Integers, Sequences, FiniteSets, TLC

VARIABLES
    variant,      \* which server file runs: "handler" (setRequestHandler) or "registerTool"
    ALLOWLIST,    \* Set<string> built once from GOVEE_ALLOWLIST
    DRY_RUN,      \* GOVEE_DRY_RUN
    lanEnabled,   \* LanAdapter.lanEnabled (GOVEE_LAN_ENABLED)
    now,          \* Date.now()
    limiter,      \* the TokenBucketLimiter singleton
    calls         \* the tool invocations, one record per client slot

config == <<variant, ALLOWLIST, DRY_RUN, lanEnabled>>
vars == <<variant, ALLOWLIST, DRY_RUN, lanEnabled, now, limiter, calls>>

----------------------------------------------------------------------------
(* Bounds of the model *)

\* longest item list handed to batch
MaxItems == 3
\* number of clock ticks explored
MaxTicks == 1

\* milliseconds the clock advances per tick
TickMs == 500
\* GOVEE_RATE_RPS of the explored deployment
Rps == 2
\* thousandths of a token
TokenUnit == 1000
\* the retry wait of take()
RetryMs == 50
\* GOVEE_BATCH_WINDOW_MS (default)
BATCH_WINDOW_MS == 120

Slots == {1}
Variants == {"handler", "registerTool"}
Devices == {"A", "B", "A:B"}
AllowlistChoices == {{}, {"A"}}
Statuses == {200, 500}

Min(a, b) == IF a < b THEN a ELSE b
Max(a, b) == IF a > b THEN a ELSE b

\* all sequences over S of length 0..n
SeqsUpTo(S, n) == UNION {[1..k -> S] : k \in 0..n}

----------------------------------------------------------------------------
(* util/types.ts *)

TurnCmd(v) == [name |-> "turn", value |-> v]
BrightnessCmd(v) == [name |-> "brightness", value |-> v]
ColorCmd(r, g, b) == [name |-> "color", value |-> [r |-> r, g |-> g, b |-> b]]
ColorTemCmd(v) == [name |-> "colorTem", value |-> v]
SceneCmd(v) == [name |-> "scene", value |-> v]
NoCmd == [name |-> "none", value |-> 0]

BatchItem(d, m, cmd) == [deviceId |-> d, model |-> m, cmd |-> cmd]

\* the items a client submits to batch in this model: two brightness values and
\* a colour for A, and two items of different devices whose deviceId/model
\* pairs spell the same text when joined with ':'
BatchItems ==
    { BatchItem("A", "M", BrightnessCmd(10)),
      BatchItem("A", "M", BrightnessCmd(90)),
      BatchItem("A", "M", ColorCmd(255, 0, 0)),
      BatchItem("A:B", "M", TurnCmd("off")),
      BatchItem("A", "B:M", TurnCmd("on")) }

----------------------------------------------------------------------------
(* util/limiter.ts *)

\* mutant: the bucket holds one token whatever the rate
NewLimiter_unit(rps, t) ==
    [capacity |-> 1, tokens |-> TokenUnit, refillRatePerSec |-> rps, last |-> t]

\* constructor(rps)
NewLimiter(rps, t) ==
    [capacity |-> Max(1, rps), tokens |-> Max(1, rps) * TokenUnit,
     refillRatePerSec |-> rps, last |-> t]

\* mutant: the refill keeps whole tokens only, the fraction refilled since the
\* last check is lost
Refill_floor(lim, t) ==
    [lim EXCEPT !.last = t,
                !.tokens = Min(lim.capacity * TokenUnit,
                               ((lim.tokens + (t - lim.last) * lim.refillRatePerSec)
                                  \div TokenUnit) * TokenUnit)]

\* the refill of one loop iteration of take(): last = now; tokens = min(...)
Refill(lim, t) ==
    [lim EXCEPT !.last = t,
                !.tokens = Min(lim.capacity * TokenUnit,
                               lim.tokens + (t - lim.last) * lim.refillRatePerSec)]

\* whether the iteration finds a token
Granted(lim, t) == Refill(lim, t).tokens >= TokenUnit

\* mutant: a granted iteration consumes two tokens
TakeOnce_double(lim, t) ==
    IF Granted(lim, t)
    THEN [Refill(lim, t) EXCEPT !.tokens = @ - 2 * TokenUnit]
    ELSE Refill(lim, t)

\* mutant: the iteration consumes a token whether or not the bucket holds one
TakeOnce_always(lim, t) == [Refill(lim, t) EXCEPT !.tokens = @ - TokenUnit]

\* one loop iteration of take(): refill, then consume one token when there is one
TakeOnce(lim, t) ==
    IF Granted(lim, t)
    THEN [Refill(lim, t) EXCEPT !.tokens = @ - TokenUnit]
    ELSE Refill(lim, t)

----------------------------------------------------------------------------
(* server: isAllowed, pickAdapter *)

\* mutant: the size test accepts every allowlist
isAllowed_anySize(deviceId) == Cardinality(ALLOWLIST) >= 0 \/ deviceId \in ALLOWLIST

isAllowed(deviceId) == ALLOWLIST = {} \/ deviceId \in ALLOWLIST

\* mutant: every device is routed to the LAN adapter
pickAdapter_lan(deviceId) == "lan"

\* mutant: the flag routes device A only
pickAdapter_perDevice(deviceId) == IF lanEnabled /\ deviceId = "A" THEN "lan" ELSE "cloud"

pickAdapter(deviceId) == IF lanEnabled THEN "lan" ELSE "cloud"

----------------------------------------------------------------------------
(* adapters/cloud.ts: the capability translation *)

NoCap == [type |-> "", instance |-> "", value |-> 0]
Cap(t, i, v) == [type |-> t, instance |-> i, value |-> v]

\* v << k for 0 <= v < 2^(31-k): no bit is shifted out
Shl(v, k) == v * (2 ^ k)

RECURSIVE BitOr(_, _)
\* a | b for non-negative a, b
BitOr(a, b) ==
    IF a = 0 THEN b
    ELSE IF b = 0 THEN a
    ELSE (IF a % 2 = 1 \/ b % 2 = 1 THEN 1 ELSE 0) + 2 * BitOr(a \div 2, b \div 2)

\* mutant: red is shifted by 8 like green
PackRgb_shift8(c) == BitOr(BitOr(Shl(c.r, 8), Shl(c.g, 8)), c.b)

\* (r << 16) | (g << 8) | b
PackRgb(c) == BitOr(BitOr(Shl(c.r, 16), Shl(c.g, 8)), c.b)

\* mutant: the power switch value is inverted
encode_inverted(cmd) ==
    CASE cmd.name = "turn" ->
           Cap("devices.capabilities.on_off", "powerSwitch",
               IF cmd.value = "on" THEN 0 ELSE 1)
      [] cmd.name = "brightness" ->
           Cap("devices.capabilities.range", "brightness", cmd.value)
      [] cmd.name = "color" ->
           Cap("devices.capabilities.color_setting", "colorRgb", PackRgb(cmd.value))
      [] cmd.name = "colorTem" ->
           Cap("devices.capabilities.color_setting", "colorTemperatureK", cmd.value)
      [] cmd.name = "scene" ->
           Cap("devices.capabilities.dynamic_scene", "lightScene", cmd.value)
      [] OTHER -> NoCap

\* the switch of CloudAdapter.control: one capability per command
encode(cmd) ==
    CASE cmd.name = "turn" ->
           Cap("devices.capabilities.on_off", "powerSwitch",
               IF cmd.value = "on" THEN 1 ELSE 0)
      [] cmd.name = "brightness" ->
           Cap("devices.capabilities.range", "brightness", cmd.value)
      [] cmd.name = "color" ->
           Cap("devices.capabilities.color_setting", "colorRgb", PackRgb(cmd.value))
      [] cmd.name = "colorTem" ->
           Cap("devices.capabilities.color_setting", "colorTemperatureK", cmd.value)
      [] cmd.name = "scene" ->
           Cap("devices.capabilities.dynamic_scene", "lightScene", cmd.value)
      [] OTHER -> NoCap

\* { r: (rgb >> 16) & 255, g: (rgb >> 8) & 255, b: rgb & 255 } for rgb >= 0
UnpackRgb(rgb) ==
    [r |-> (rgb \div 65536) % 256, g |-> (rgb \div 256) % 256, b |-> rgb % 256]

\* an entry of the capabilities array of a /device/state answer: the value is
\* reported under state.value
StateCap(t, i, v) == [type |-> t, instance |-> i, state |-> [value |-> v]]

\* the body of the for loop of CloudAdapter.getState on one capability
decodeOne(st, c) ==
    LET s1 == IF c.type = "devices.capabilities.on_off"
              THEN ("power" :> (IF c.state.value = 1 THEN "on" ELSE "off")) @@ st
              ELSE st
        s2 == IF c.type = "devices.capabilities.range" /\ c.instance = "brightness"
              THEN ("brightness" :> c.state.value) @@ s1
              ELSE s1
        s3 == IF c.type = "devices.capabilities.color_setting" /\ c.instance = "colorRgb"
              THEN ("color" :> UnpackRgb(c.state.value)) @@ s2
              ELSE s2
    IN  IF c.type = "devices.capabilities.color_setting"
           /\ c.instance = "colorTemperatureK"
        THEN ("colorTem" :> c.state.value) @@ s3
        ELSE s3

RECURSIVE decodeFrom(_, _, _)
decodeFrom(st, caps, k) ==
    IF k > Len(caps) THEN st ELSE decodeFrom(decodeOne(st, caps[k]), caps, k + 1)

\* const st: State = {}; for (const c of caps) ...; return st
decode(caps) == decodeFrom(<<>>, caps, 1)

\* the capability arrays a /device/state response carries in this model
StateResponses ==
    { <<>>,
      <<StateCap("devices.capabilities.on_off", "powerSwitch", 1),
        StateCap("devices.capabilities.range", "brightness", 90)>>,
      <<StateCap("devices.capabilities.color_setting", "colorRgb", 660510)>> }

\* one entry of the data array of GET /user/devices
RawDevice(d, sku) ==
    [device |-> d, sku |-> sku, deviceName |-> "lamp",
     capabilities |-> <<[type |-> "devices.capabilities.on_off"]>>]

\* the data arrays a /user/devices response carries in this model
DeviceResponses ==
    { <<>>,
      <<RawDevice("A", "M")>>,
      <<RawDevice("A", "M"), RawDevice("B", "M")>>,
      <<RawDevice("B", "M"), RawDevice("A", "M"), RawDevice("A:B", "M")>> }

\* devices.map((d) => ({ deviceId: d.device, model: d.sku, name, capabilities }))
DeviceInfo(d) ==
    [deviceId |-> d.device, model |-> d.sku, name |-> d.deviceName,
     capabilities |-> [i \in DOMAIN d.capabilities |-> d.capabilities[i].type]]

\* res.ok
ResOk(status) == status >= 200 /\ status <= 299

\* new Error(`Govee API error ${res.status}: Request failed`)
UpstreamError(status) == "Govee API error " \o ToString(status) \o ": Request failed"

Request(method, path, ref, cap) ==
    [method |-> method, path |-> path, sku |-> ref.model, device |-> ref.deviceId,
     capability |-> cap]

NoRef == [deviceId |-> "", model |-> ""]

----------------------------------------------------------------------------
(* server: results, validation and the tool invocations *)

NoResult == [kind |-> "none", error |-> "", thrown |-> FALSE, value |-> <<>>]
Ok(v) == [kind |-> "ok", error |-> "", thrown |-> FALSE, value |-> v]

\* an Error thrown inside a tool: the try/catch of the tools/call handler turns
\* it into { isError: true, text: "Error: ..." }; a registerTool callback has no
\* catch and the Error leaves the callback
Thrown(msg) ==
    [kind |-> "error", error |-> msg, thrown |-> (variant = "registerTool"),
     value |-> <<>>]

\* the rejection of arguments that do not satisfy a registerTool inputSchema
ValidationError == "Invalid arguments"
Invalid == [kind |-> "error", error |-> ValidationError, thrown |-> FALSE, value |-> <<>>]

\* Math.round of a number given in tenths
MathRound(tenths) == (tenths + 5) \div 10

\* z.number().min(0).max(100), the argument in tenths
ValidPercent(p) == p >= 0 /\ p <= 100 * 10
\* z.number().min(0).max(255)
ValidChannel(v) == v >= 0 /\ v <= 255
\* z.number().min(1000).max(10000), the argument in tenths
ValidKelvin(k) == k >= 1000 * 10 /\ k <= 10000 * 10

\* the z.union of the batch item schema (values are integers here)
ValidCmd(cmd) ==
    CASE cmd.name = "turn" -> cmd.value \in {"on", "off"}
      [] cmd.name = "brightness" -> cmd.value >= 0 /\ cmd.value <= 100
      [] cmd.name = "color" ->
           ValidChannel(cmd.value.r) /\ ValidChannel(cmd.value.g) /\ ValidChannel(cmd.value.b)
      [] cmd.name = "colorTem" -> cmd.value >= 1000 /\ cmd.value <= 10000
      [] cmd.name = "scene" -> TRUE
      [] OTHER -> FALSE

\* z.array(...).min(1)
ValidBatch(items) == Len(items) >= 1 /\ \A i \in DOMAIN items : ValidCmd(items[i].cmd)

\* whether the arguments are checked against a schema before the tool body runs:
\* registerTool is given a zod inputSchema; the tools/call handler reads
\* request.params.arguments as they are
SchemaChecked == variant = "registerTool"

IdleCall ==
    [name |-> "none", args |-> <<>>, pc |-> "idle", result |-> NoResult,
     allowed |-> <<>>, deduped |-> <<>>, groups |-> <<>>, sent |-> <<>>,
     http |-> <<>>, resp |-> <<>>, wakeAt |-> 0, taken |-> 0]

NewCall(name, args) == [IdleCall EXCEPT !.name = name, !.args = args, !.pc = "entry"]

GroupActive(g) == g.phase \in {"window", "ready", "inflight"}

\* a client slot issues its next call once the previous one is over
CanInvoke(c) == calls[c].pc = "idle"

\* the result has been handed to the client: the slot is free for the next call
Return(c) ==
    /\ calls[c].pc = "done"
    /\ \A d \in DOMAIN calls[c].groups : ~GroupActive(calls[c].groups[d])
    /\ calls' = [calls EXCEPT ![c] = IdleCall]
    /\ UNCHANGED <<config, now, limiter>>

\* mutant: a rejected call has gone through the limiter
Reject_charged(c, call, res) ==
    /\ calls' = [calls EXCEPT ![c] = [call EXCEPT !.pc = "done", !.result = res]]
    /\ limiter' = TakeOnce(limiter, now)

\* the tool ends before admission
Reject(c, call, res) ==
    /\ calls' = [calls EXCEPT ![c] = [call EXCEPT !.pc = "done", !.result = res]]
    /\ UNCHANGED limiter

\* mutant: the tool goes on when take() finds no token
AwaitTake_through(c, call) ==
    /\ limiter' = TakeOnce(limiter, now)
    /\ calls' = [calls EXCEPT ![c] =
                   IF Granted(limiter, now)
                   THEN [call EXCEPT !.pc = "admitted", !.taken = @ + 1]
                   ELSE [call EXCEPT !.pc = "admitted"]]

\* await limiter.take(): the first loop iteration runs at once
AwaitTake(c, call) ==
    /\ limiter' = TakeOnce(limiter, now)
    /\ calls' = [calls EXCEPT ![c] =
                   IF Granted(limiter, now)
                   THEN [call EXCEPT !.pc = "admitted", !.taken = @ + 1]
                   ELSE [call EXCEPT !.pc = "take", !.wakeAt = now + RetryMs]]

\* mutant: the tool forgets the allowlist test
SingleDevice_unguarded(c, call, valid) ==
    IF SchemaChecked /\ ~valid THEN Reject(c, call, Invalid) ELSE AwaitTake(c, call)

\* the head of every single-device tool:
\*   (schema)  if (!isAllowed(deviceId)) throw ...;  await limiter.take();
SingleDevice(c, call, valid) ==
    IF SchemaChecked /\ ~valid THEN Reject(c, call, Invalid)
    ELSE IF ~isAllowed(call.args.deviceId) THEN Reject(c, call, Thrown("Device not allowed"))
    ELSE AwaitTake(c, call)

ListDevices(c) ==
    /\ CanInvoke(c)
    /\ AwaitTake(c, NewCall("list_devices", <<>>))
    /\ UNCHANGED <<config, now>>

GetState(c, deviceId, model) ==
    /\ CanInvoke(c)
    /\ SingleDevice(c, NewCall("get_state", [deviceId |-> deviceId, model |-> model]), TRUE)
    /\ UNCHANGED <<config, now>>

SetPower(c, deviceId, model, on) ==
    /\ CanInvoke(c)
    /\ SingleDevice(c, NewCall("set_power",
                       [deviceId |-> deviceId, model |-> model, on |-> on]), TRUE)
    /\ UNCHANGED <<config, now>>

SetBrightness(c, deviceId, model, percent) ==
    /\ CanInvoke(c)
    /\ SingleDevice(c, NewCall("set_brightness",
                       [deviceId |-> deviceId, model |-> model, percent |-> percent]),
                    ValidPercent(percent))
    /\ UNCHANGED <<config, now>>

SetColor(c, deviceId, model, r, g, b) ==
    /\ CanInvoke(c)
    /\ SingleDevice(c, NewCall("set_color",
                       [deviceId |-> deviceId, model |-> model, r |-> r, g |-> g, b |-> b]),
                    ValidChannel(r) /\ ValidChannel(g) /\ ValidChannel(b))
    /\ UNCHANGED <<config, now>>

SetColorTemp(c, deviceId, model, kelvin) ==
    /\ CanInvoke(c)
    /\ SingleDevice(c, NewCall("set_color_temp",
                       [deviceId |-> deviceId, model |-> model, kelvin |-> kelvin]),
                    ValidKelvin(kelvin))
    /\ UNCHANGED <<config, now>>

SetScene(c, deviceId, model, scene) ==
    /\ CanInvoke(c)
    /\ SingleDevice(c, NewCall("set_scene",
                       [deviceId |-> deviceId, model |-> model, scene |-> scene]), TRUE)
    /\ UNCHANGED <<config, now>>

\* default: throw new Error(`Unknown tool: ${name}`) of the tools/call handler
UnknownTool(c, name) ==
    /\ variant = "handler"
    /\ CanInvoke(c)
    /\ Reject(c, NewCall(name, <<>>), Thrown("Unknown tool: " \o name))
    /\ UNCHANGED <<config, now>>

----------------------------------------------------------------------------
(* server: batch with coalescing *)

\* const key = (it) => `${it.deviceId}:${it.model}:${it.cmd.name}`
key(it) == it.deviceId \o ":" \o it.model \o ":" \o it.cmd.name

\* a JS Map as the sequence of its entries in insertion order
MapHas(map, k) == \E i \in DOMAIN map : map[i].key = k
MapGet(map, k) == map[CHOOSE i \in DOMAIN map : map[i].key = k].value

\* mutant: a known key is deleted and inserted again, so it moves to the end
MapSet_reinsert(map, k, v) ==
    Append(SelectSeq(map, LAMBDA e : e.key # k), [key |-> k, value |-> v])

\* Map.prototype.set: a new key goes to the end, a known key keeps its place
\* and takes the new value
MapSet(map, k, v) ==
    IF MapHas(map, k)
    THEN [i \in DOMAIN map |-> IF map[i].key = k THEN [key |-> k, value |-> v] ELSE map[i]]
    ELSE Append(map, [key |-> k, value |-> v])

\* Array.from(map.values())
MapValues(map) == [i \in DOMAIN map |-> map[i].value]

RECURSIVE CoalesceFrom(_, _, _)
\* for (const it of allowed) map.set(key(it), it)
CoalesceFrom(map, allowed, k) ==
    IF k > Len(allowed) THEN map
    ELSE CoalesceFrom(MapSet(map, key(allowed[k]), allowed[k]), allowed, k + 1)

\* deduped
Coalesce(allowed) == MapValues(CoalesceFrom(<<>>, allowed, 1))

RECURSIVE GroupFrom_overwrite(_, _, _)
\* mutant: byDevice.set(id, [it]) instead of pushing onto the array found
GroupFrom_overwrite(map, deduped, k) ==
    IF k > Len(deduped) THEN map
    ELSE GroupFrom_overwrite(MapSet(map, deduped[k].deviceId, <<deduped[k]>>), deduped, k + 1)

RECURSIVE GroupFrom(_, _, _)
\* for (const it of deduped) { arr = byDevice.get(id) || []; arr.push(it); byDevice.set(id, arr) }
GroupFrom(map, deduped, k) ==
    IF k > Len(deduped) THEN map
    ELSE LET it == deduped[k]
             arr == IF MapHas(map, it.deviceId) THEN MapGet(map, it.deviceId) ELSE <<>>
         IN  GroupFrom(MapSet(map, it.deviceId, Append(arr, it)), deduped, k + 1)

byDevice(deduped) == GroupFrom(<<>>, deduped, 1)

\* mutant: the items are not filtered
AllowedItems_all(items) == items

\* items.filter((i) => isAllowed(i.deviceId))
AllowedItems(items) == SelectSeq(items, LAMBDA i : isAllowed(i.deviceId))

Batch(c, items) ==
    /\ CanInvoke(c)
    /\ LET call == NewCall("batch", [items |-> items])
           allowed == AllowedItems(items)
       IN  IF SchemaChecked /\ ~ValidBatch(items) THEN Reject(c, call, Invalid)
           ELSE IF Len(allowed) = 0 THEN Reject(c, call, Thrown("No allowed items"))
           ELSE AwaitTake(c, [call EXCEPT !.allowed = allowed,
                                          !.deduped = Coalesce(allowed)])
    /\ UNCHANGED <<config, now>>

----------------------------------------------------------------------------
(* the adapters *)

NoRequest == Request("", "", NoRef, NoCap)

\* mutant: the dry-run flag is not consulted
ControlStart_wet(ad, ref, cmd) ==
    IF ad = "lan"
    THEN [outcome |-> "throw", request |-> NoRequest,
          error |-> IF ~lanEnabled THEN "LAN disabled" ELSE "LAN control not implemented"]
    ELSE [outcome |-> "await", error |-> "",
          request |-> Request("POST", "/device/control", ref, encode(cmd))]

\* CloudAdapter.control / LanAdapter.control up to the first await:
\* the call returns, throws, or waits for the answer to a request
ControlStart(ad, ref, cmd) ==
    IF ad = "lan"
    THEN [outcome |-> "throw", request |-> NoRequest,
          error |-> IF ~lanEnabled THEN "LAN disabled" ELSE "LAN control not implemented"]
    ELSE IF DRY_RUN
         THEN [outcome |-> "return", request |-> NoRequest, error |-> ""]
         ELSE IF encode(cmd).type = NoCap.type
              THEN [outcome |-> "throw", request |-> NoRequest,
                    error |-> "Unsupported command: " \o cmd.name]
              ELSE [outcome |-> "await", error |-> "",
                    request |-> Request("POST", "/device/control", ref, encode(cmd))]

\* CloudAdapter.getState / LanAdapter.getState up to the first await
GetStateStart(ad, ref) ==
    IF ad = "lan"
    THEN [outcome |-> "throw", request |-> NoRequest, error |-> "LAN getState not implemented"]
    ELSE [outcome |-> "await", error |-> "",
          request |-> Request("POST", "/device/state", ref, NoCap)]

\* one call handed to an adapter
Sent(ad, fn, ref, cmd, status) ==
    [ad |-> ad, fn |-> fn, deviceId |-> ref.deviceId, model |-> ref.model,
     cmd |-> cmd, status |-> status]

StatusOf(outcome) ==
    CASE outcome = "return" -> "ok" [] outcome = "throw" -> "failed" [] OTHER -> "inflight"

\* the ControlCmd a set_* tool builds from its arguments
CmdOf(call) ==
    CASE call.name = "set_power" -> TurnCmd(IF call.args.on THEN "on" ELSE "off")
      [] call.name = "set_brightness" -> BrightnessCmd(MathRound(call.args.percent))
      [] call.name = "set_color" -> ColorCmd(call.args.r, call.args.g, call.args.b)
      [] call.name = "set_color_temp" -> ColorTemCmd(MathRound(call.args.kelvin))
      [] call.name = "set_scene" -> SceneCmd(call.args.scene)
      [] OTHER -> NoCmd

SetTools == {"set_power", "set_brightness", "set_color", "set_color_temp", "set_scene"}

RefOf(call) == [deviceId |-> call.args.deviceId, model |-> call.args.model]

\* the rest of a tool after an adapter call started: wait, fail or finish
AfterStart(call, start, entry, value) ==
    [call EXCEPT
       !.sent = Append(@, entry),
       !.http = IF start.outcome = "await" THEN Append(@, start.request) ELSE @,
       !.pc = IF start.outcome = "await" THEN "http" ELSE "done",
       !.result = CASE start.outcome = "await" -> NoResult
                    [] start.outcome = "throw" -> Thrown(start.error)
                    [] OTHER -> Ok(value)]

\* mutant: the device task does not wait for the window
NewGroup_noWindow(deviceId, cmds) ==
    [cmds |-> cmds, idx |-> 1, phase |-> "ready", ad |-> pickAdapter(deviceId),
     wakeAt |-> now + BATCH_WINDOW_MS, cur |-> 0]

\* a device task of batch: const ad = await pickAdapter(deviceId); then the window timer
NewGroup(deviceId, cmds) ==
    [cmds |-> cmds, idx |-> 1, phase |-> "window", ad |-> pickAdapter(deviceId),
     wakeAt |-> now + BATCH_WINDOW_MS, cur |-> 0]

\* what a tool does once limiter.take() has returned
Dispatch(c) ==
    LET call == calls[c] IN
    /\ call.pc = "admitted"
    /\ calls' = [calls EXCEPT ![c] =
         CASE call.name = "list_devices" ->
                [call EXCEPT !.sent = Append(@, Sent("cloud", "listDevices", NoRef, NoCmd, "inflight")),
                             !.http = Append(@, Request("GET", "/user/devices", NoRef, NoCap)),
                             !.pc = "http"]
           [] call.name = "get_state" ->
                LET ad == pickAdapter(call.args.deviceId)
                    start == GetStateStart(ad, RefOf(call))
                IN  AfterStart(call, start,
                               Sent(ad, "getState", RefOf(call), NoCmd, StatusOf(start.outcome)),
                               <<>>)
           [] call.name \in SetTools ->
                LET ad == pickAdapter(call.args.deviceId)
                    start == ControlStart(ad, RefOf(call), CmdOf(call))
                IN  AfterStart(call, start,
                               Sent(ad, "control", RefOf(call), CmdOf(call), StatusOf(start.outcome)),
                               CmdOf(call))
           [] OTHER ->
                LET by == byDevice(call.deduped) IN
                [call EXCEPT !.pc = "fanout",
                             !.groups = [d \in {by[i].key : i \in DOMAIN by} |->
                                           NewGroup(d, MapGet(by, d))]]]
    /\ UNCHANGED <<config, now, limiter>>

\* the status of the last adapter call of a single-device tool
SetLast(sent, status) == [sent EXCEPT ![Len(sent)].status = status]

\* CloudAdapter.listDevices on the data array of the answer
listDevices(data) == [i \in DOMAIN data |-> DeviceInfo(data[i])]

\* mutant: the list is returned unfiltered
FilterDevices_all(list) == list

\* const filtered = list.filter((d) => isAllowed(d.deviceId))
FilterDevices(list) == SelectSeq(list, LAMBDA d : isAllowed(d.deviceId))

\* the answer to GET /user/devices reaches list_devices
ListRespond(c, status, data) ==
    LET call == calls[c] IN
    /\ call.pc = "http" /\ call.name = "list_devices"
    /\ calls' = [calls EXCEPT ![c] =
         IF ResOk(status)
         THEN [call EXCEPT !.sent = SetLast(@, "ok"), !.pc = "done", !.resp = data,
                           !.result = Ok(FilterDevices(listDevices(data)))]
         ELSE [call EXCEPT !.sent = SetLast(@, "failed"), !.pc = "done",
                 !.result = Thrown(UpstreamError(status))]]
    /\ UNCHANGED <<config, now, limiter>>

\* the answer to POST /device/state reaches get_state
StateRespond(c, status, caps) ==
    LET call == calls[c] IN
    /\ call.pc = "http" /\ call.name = "get_state"
    /\ calls' = [calls EXCEPT ![c] =
         IF ResOk(status)
         THEN [call EXCEPT !.sent = SetLast(@, "ok"), !.pc = "done", !.resp = caps,
                           !.result = Ok(decode(caps))]
         ELSE [call EXCEPT !.sent = SetLast(@, "failed"), !.pc = "done",
                           !.result = Thrown(UpstreamError(status))]]
    /\ UNCHANGED <<config, now, limiter>>

\* the answer to POST /device/control reaches a set_* tool
ControlRespond(c, status) ==
    LET call == calls[c] IN
    /\ call.pc = "http" /\ call.name \in SetTools
    /\ calls' = [calls EXCEPT ![c] =
         IF ResOk(status)
         THEN [call EXCEPT !.sent = SetLast(@, "ok"), !.pc = "done",
                           !.result = Ok(CmdOf(call))]
         ELSE [call EXCEPT !.sent = SetLast(@, "failed"), !.pc = "done",
                           !.result = Thrown(UpstreamError(status))]]
    /\ UNCHANGED <<config, now, limiter>>

\* await Promise.all(promises) and the return after it: the call fails with the
\* first task that fails and succeeds when every task has finished
Join(call, groups, failure) ==
    IF call.result.kind # "none" THEN call.result
    ELSE IF failure # "" THEN Thrown(failure)
    ELSE IF \A d \in DOMAIN groups : groups[d].phase = "done"
         THEN Ok([commands |-> Len(call.deduped), devices |-> Cardinality(DOMAIN groups)])
         ELSE NoResult

\* a device task moved: the call with the task's new state
WithGroup(call, d, g, sent, http, failure) ==
    LET groups == [call.groups EXCEPT ![d] = g]
        res == Join(call, groups, failure)
    IN  [call EXCEPT !.groups = groups, !.sent = sent, !.http = http, !.result = res,
                     !.pc = IF res.kind = "none" THEN "fanout" ELSE "done"]

\* the position after the command at idx has been applied
Advance(g) ==
    [g EXCEPT !.idx = @ + 1, !.cur = 0,
              !.phase = IF g.idx + 1 > Len(g.cmds) THEN "done" ELSE "ready"]

\* mutant: the control call is not awaited, the loop goes on at once
Awaiting_not(g, n) == Advance(g)

\* await ad.control(...): the task is suspended until the answer to call n of sent
Awaiting(g, n) == [g EXCEPT !.phase = "inflight", !.cur = n]

\* setTimeout(r, BATCH_WINDOW_MS) of a device task fires
WindowElapsed(c, d) ==
    LET call == calls[c] IN
    /\ d \in DOMAIN call.groups
    /\ call.groups[d].phase = "window"
    /\ now >= call.groups[d].wakeAt
    /\ calls' = [calls EXCEPT ![c].groups[d].phase = "ready"]
    /\ UNCHANGED <<config, now, limiter>>

\* mutant: one control call of a batch at a time, a task waits for the call of
\* another task to end
GroupSend_serial(c, d) ==
    LET call == calls[c] IN
    /\ d \in DOMAIN call.groups
    /\ call.groups[d].phase = "ready"
    /\ \A e \in DOMAIN call.groups : call.groups[e].phase # "inflight"
    /\ LET g == call.groups[d]
           it == g.cmds[g.idx]
           ref == [deviceId |-> it.deviceId, model |-> it.model]
           start == ControlStart(g.ad, ref, it.cmd)
           sent == Append(call.sent, Sent(g.ad, "control", ref, it.cmd, StatusOf(start.outcome)))
       IN  calls' = [calls EXCEPT ![c] =
             CASE start.outcome = "return" ->
                    WithGroup(call, d, Advance(g), sent, call.http, "")
               [] start.outcome = "throw" ->
                    WithGroup(call, d, [g EXCEPT !.phase = "failed"], sent, call.http,
                              start.error)
               [] OTHER ->
                    WithGroup(call, d, Awaiting(g, Len(sent)), sent,
                              Append(call.http, start.request), "")]
    /\ UNCHANGED <<config, now, limiter>>

\* for (const it of cmds) await ad.control({deviceId: it.deviceId, model: it.model}, it.cmd)
\* : the task hands its next command to the adapter
GroupSend(c, d) ==
    LET call == calls[c] IN
    /\ d \in DOMAIN call.groups
    /\ call.groups[d].phase = "ready"
    /\ LET g == call.groups[d]
           it == g.cmds[g.idx]
           ref == [deviceId |-> it.deviceId, model |-> it.model]
           start == ControlStart(g.ad, ref, it.cmd)
           sent == Append(call.sent, Sent(g.ad, "control", ref, it.cmd, StatusOf(start.outcome)))
       IN  calls' = [calls EXCEPT ![c] =
             CASE start.outcome = "return" ->
                    WithGroup(call, d, Advance(g), sent, call.http, "")
               [] start.outcome = "throw" ->
                    WithGroup(call, d, [g EXCEPT !.phase = "failed"], sent, call.http,
                              start.error)
               [] OTHER ->
                    WithGroup(call, d, Awaiting(g, Len(sent)), sent,
                              Append(call.http, start.request), "")]
    /\ UNCHANGED <<config, now, limiter>>

\* mutant: a device task goes on with its next command after a failed one
GroupRespond_goOn(c, d, status) ==
    LET call == calls[c] IN
    /\ d \in DOMAIN call.groups
    /\ call.groups[d].phase = "inflight"
    /\ LET g == call.groups[d] IN
       calls' = [calls EXCEPT ![c] =
         IF ResOk(status)
         THEN WithGroup(call, d, Advance(g),
                        [call.sent EXCEPT ![g.cur].status = "ok"], call.http, "")
         ELSE WithGroup(call, d, Advance(g),
                        [call.sent EXCEPT ![g.cur].status = "failed"], call.http,
                        UpstreamError(status))]
    /\ UNCHANGED <<config, now, limiter>>

\* the answer to the POST /device/control of a device task
GroupRespond(c, d, status) ==
    LET call == calls[c] IN
    /\ d \in DOMAIN call.groups
    /\ call.groups[d].phase = "inflight"
    /\ LET g == call.groups[d] IN
       calls' = [calls EXCEPT ![c] =
         IF ResOk(status)
         THEN WithGroup(call, d, Advance(g),
                        [call.sent EXCEPT ![g.cur].status = "ok"], call.http, "")
         ELSE WithGroup(call, d, [g EXCEPT !.phase = "failed", !.cur = 0],
                        [call.sent EXCEPT ![g.cur].status = "failed"], call.http,
                        UpstreamError(status))]
    /\ UNCHANGED <<config, now, limiter>>

\* the 50 ms timer of take() fires: the next loop iteration
TakeRetry(c) ==
    /\ calls[c].pc = "take"
    /\ now >= calls[c].wakeAt
    /\ AwaitTake(c, calls[c])
    /\ UNCHANGED <<config, now>>

\* the wall clock advances
Tick ==
    /\ now + TickMs <= MaxTicks * TickMs
    /\ now' = now + TickMs
    /\ UNCHANGED <<config, limiter, calls>>

----------------------------------------------------------------------------
(* the arguments clients pass in this model *)

SingleModels == {"M"}
\* 90, 99.6 and 150 percent, in tenths
PercentArgs == {900, 996, 1500}
ColorArgs == {<<255, 0, 0>>, <<10, 20, 30>>, <<300, 0, 0>>}
\* 3000 K and 500 K, in tenths
KelvinArgs == {30000, 5000}
SceneArgs == {"sunset"}
\* a tool name the server does not know
UnknownNames == {"govee.reboot"}

Init ==
    /\ variant \in Variants
    /\ ALLOWLIST \in AllowlistChoices
    /\ DRY_RUN \in BOOLEAN
    /\ lanEnabled \in BOOLEAN
    /\ now = 0
    /\ limiter = NewLimiter(Rps, 0)
    /\ calls = [c \in Slots |-> IdleCall]

Next ==
    \/ Tick
    \/ \E c \in Slots : ListDevices(c)
    \/ \E c \in Slots, d \in Devices, m \in SingleModels : GetState(c, d, m)
    \/ \E c \in Slots, d \in Devices, m \in SingleModels, on \in BOOLEAN : SetPower(c, d, m, on)
    \/ \E c \in Slots, d \in Devices, m \in SingleModels, p \in PercentArgs :
         SetBrightness(c, d, m, p)
    \/ \E c \in Slots, d \in Devices, m \in SingleModels, rgb \in ColorArgs :
         SetColor(c, d, m, rgb[1], rgb[2], rgb[3])
    \/ \E c \in Slots, d \in Devices, m \in SingleModels, k \in KelvinArgs :
         SetColorTemp(c, d, m, k)
    \/ \E c \in Slots, d \in Devices, m \in SingleModels, sc \in SceneArgs :
         SetScene(c, d, m, sc)
    \/ \E c \in Slots, items \in SeqsUpTo(BatchItems, MaxItems) : Batch(c, items)
    \/ \E c \in Slots, name \in UnknownNames : UnknownTool(c, name)
    \/ \E c \in Slots : Return(c)
    \/ \E c \in Slots : TakeRetry(c)
    \/ \E c \in Slots : Dispatch(c)
    \/ \E c \in Slots, st \in Statuses, data \in DeviceResponses : ListRespond(c, st, data)
    \/ \E c \in Slots, st \in Statuses, caps \in StateResponses : StateRespond(c, st, caps)
    \/ \E c \in Slots, st \in Statuses : ControlRespond(c, st)
    \/ \E c \in Slots, d \in Devices : WindowElapsed(c, d)
    \/ \E c \in Slots, d \in Devices : GroupSend(c, d)
    \/ \E c \in Slots, d \in Devices, st \in Statuses : GroupRespond(c, d, st)

Spec == Init /\ [][Next]_vars

----------------------------------------------------------------------------
(* util/limiter.ts on its own: callers of take() on one limiter *)

\* number of callers of take()
MaxWaiters == 7
\* milliseconds the clock advances per step of the limiter runs
LimTickMs == 50
\* last instant of the limiter runs
LimHorizonMs == 300

Waiters == 1..MaxWaiters
\* GOVEE_RATE_RPS of the limiter runs
RpsChoices == {4, 5}

IdleWaiter == [pc |-> "idle", calledAt |-> 0, wakeAt |-> 0, grantedAt |-> 0]

\* mutant: the iteration that finds a token returns without taking it
TakeLoop_free(w, st) ==
    /\ limiter' = Refill(limiter, now)
    /\ calls' = [calls EXCEPT ![w] =
                   IF Granted(limiter, now)
                   THEN [st EXCEPT !.pc = "returned", !.grantedAt = now]
                   ELSE [st EXCEPT !.pc = "take", !.wakeAt = now + RetryMs]]

\* mutant: a token goes to the caller that has waited longest; an iteration of
\* another caller suspends again
TakeLoop_fifo(w, st) ==
    LET first == \A v \in Waiters \ {w} :
                   calls[v].pc = "take" =>
                     \/ calls[v].calledAt > st.calledAt
                     \/ calls[v].calledAt = st.calledAt /\ v > w
        grant == Granted(limiter, now) /\ first
    IN  /\ limiter' = IF grant THEN TakeOnce(limiter, now) ELSE Refill(limiter, now)
        /\ calls' = [calls EXCEPT ![w] =
                       IF grant
                       THEN [st EXCEPT !.pc = "returned", !.grantedAt = now]
                       ELSE [st EXCEPT !.pc = "take", !.wakeAt = now + RetryMs]]

\* one iteration of while (true) in take(), run to its return or to its await
TakeLoop(w, st) ==
    /\ limiter' = TakeOnce(limiter, now)
    /\ calls' = [calls EXCEPT ![w] =
                   IF Granted(limiter, now)
                   THEN [st EXCEPT !.pc = "returned", !.grantedAt = now]
                   ELSE [st EXCEPT !.pc = "take", !.wakeAt = now + RetryMs]]

\* a caller invokes take(); callers are numbered in the order of their calls
take(w) ==
    /\ calls[w].pc = "idle"
    /\ \A v \in Waiters : v < w => calls[v].pc # "idle"
    /\ TakeLoop(w, [IdleWaiter EXCEPT !.calledAt = now])
    /\ UNCHANGED <<config, now>>

\* the setTimeout(r, 50) of a suspended caller fires, at its time or later
TakeWake(w) ==
    /\ calls[w].pc = "take"
    /\ now >= calls[w].wakeAt
    /\ TakeLoop(w, calls[w])
    /\ UNCHANGED <<config, now>>

\* Date.now() advances
LimTick ==
    /\ now + LimTickMs <= LimHorizonMs
    /\ now' = now + LimTickMs
    /\ UNCHANGED <<config, limiter, calls>>

LimInit ==
    /\ variant = "handler" /\ ALLOWLIST = {} /\ DRY_RUN = FALSE /\ lanEnabled = FALSE
    /\ now = 0
    /\ \E rps \in RpsChoices : limiter = NewLimiter(rps, 0)
    /\ calls = [w \in Waiters |-> IdleWaiter]

LimNext ==
    \/ LimTick
    \/ \E w \in Waiters : take(w)
    \/ \E w \in Waiters : TakeWake(w)

LimSpec == LimInit /\ [][LimNext]_vars

----------------------------------------------------------------------------
(* util/limiter.ts under a clock that never stops: instants are measured from
   the present one, so now stays 0 and the stored instants move into the past *)

\* milliseconds the clock advances per step of these runs
LiveTickMs == 50
\* the longest wait a caller's record keeps
LiveAgeMs == 100
\* the callers of these runs; each calls take() again and again
LiveCallers == {1, 2, 3}
\* GOVEE_RATE_RPS of these runs
LiveRps == {1, 2}

\* the bucket would be full at the next refill whatever more time passes
Saturated(lim) ==
    lim.tokens + (now - lim.last) * lim.refillRatePerSec >= lim.capacity * TokenUnit

\* Date.now() advances by LiveTickMs: this.last and the instants of the
\* suspended callers lie that much further back
LiveTick ==
    /\ limiter' = IF Saturated(limiter) THEN limiter
                  ELSE [limiter EXCEPT !.last = @ - LiveTickMs]
    /\ calls' = [w \in Waiters |->
                   IF calls[w].pc = "take"
                   THEN [calls[w] EXCEPT !.wakeAt = Max(0, @ - LiveTickMs),
                                         !.calledAt = Max(0 - LiveAgeMs, @ - LiveTickMs)]
                   ELSE calls[w]]
    /\ UNCHANGED <<config, now>>

\* the caller to which take() has returned goes on and may call take() again
LiveAgain(w) ==
    /\ calls[w].pc = "returned"
    /\ calls' = [calls EXCEPT ![w] = IdleWaiter]
    /\ UNCHANGED <<config, now, limiter>>

LiveInit ==
    /\ variant = "handler" /\ ALLOWLIST = {} /\ DRY_RUN = FALSE /\ lanEnabled = FALSE
    /\ now = 0
    /\ \E rps \in LiveRps : limiter = NewLimiter(rps, 0)
    /\ calls = [w \in Waiters |-> IdleWaiter]

LiveNext ==
    \/ LiveTick
    \/ \E w \in LiveCallers : take(w)
    \/ \E w \in LiveCallers : TakeWake(w)
    \/ \E w \in LiveCallers : LiveAgain(w)

\* the clock advances and a timer that is due fires; nothing makes a client call
LiveSpec ==
    /\ LiveInit /\ [][LiveNext]_vars
    /\ WF_vars(LiveTick)
    /\ \A w \in LiveCallers : WF_vars(TakeWake(w))

----------------------------------------------------------------------------
(* adapters/cloud.ts: the capability translation on its own *)

\* the colour channel values of the translation runs
Channels == {0, 1, 10, 20, 30, 128, 255}

\* the valid ControlCmd values of the translation runs
TransCmds ==
    {TurnCmd(v) : v \in {"on", "off"}}
      \cup {BrightnessCmd(v) : v \in {0, 1, 10, 90, 100}}
      \cup {ColorCmd(r, g, b) : r \in Channels, g \in Channels, b \in Channels}
      \cup {ColorTemCmd(v) : v \in {1000, 3000, 6500, 10000}}
      \cup {SceneCmd(v) : v \in {"sunset", "rainbow"}}

\* a command before it is encoded
Untranslated(cmd) ==
    [pc |-> "cmd", cmd |-> cmd, envelope |-> NoCap, caps |-> <<>>, state |-> <<>>]

\* CloudAdapter.control builds the capability of the command
Encode ==
    /\ calls.pc = "cmd"
    /\ calls' = [calls EXCEPT !.pc = "encoded", !.envelope = encode(calls.cmd)]
    /\ UNCHANGED <<config, now, limiter>>

\* the device reports the capability it was sent: a /device/state answer whose
\* capabilities array holds that one capability
Report ==
    /\ calls.pc = "encoded"
    /\ calls' = [calls EXCEPT
                   !.pc = "reported",
                   !.caps = <<StateCap(calls.envelope.type, calls.envelope.instance,
                                       calls.envelope.value)>>]
    /\ UNCHANGED <<config, now, limiter>>

\* the capability arrays a device reports on its own account: the empty one,
\* entries of the types the adapter reads under instances it does not know,
\* an entry of a type it does not know, and arrays of known pairs
VendorArrays ==
    { <<>>,
      <<StateCap("devices.capabilities.on_off", "nightlightToggle", 1)>>,
      <<StateCap("devices.capabilities.range", "humidity", 40)>>,
      <<StateCap("devices.capabilities.toggle", "oscillationToggle", 1)>>,
      <<StateCap("devices.capabilities.color_setting", "colorRgb", 660510),
        StateCap("devices.capabilities.color_setting", "colorTemperatureK", 3000)>>,
      <<StateCap("devices.capabilities.on_off", "powerSwitch", 0),
        StateCap("devices.capabilities.toggle", "oscillationToggle", 1),
        StateCap("devices.capabilities.range", "brightness", 90)>> }

\* the /device/state answer holds an array of the device's own: out?.data?.
\* capabilities || []
ReportVendor ==
    /\ calls.pc = "encoded"
    /\ \E caps \in VendorArrays :
         calls' = [calls EXCEPT !.pc = "received", !.caps = caps]
    /\ UNCHANGED <<config, now, limiter>>

\* CloudAdapter.getState decodes the array
Decode ==
    /\ calls.pc \in {"reported", "received"}
    /\ calls' = [calls EXCEPT
                   !.pc = IF calls.pc = "reported" THEN "decoded" ELSE "parsed",
                   !.state = decode(calls.caps)]
    /\ UNCHANGED <<config, now, limiter>>

TransInit ==
    /\ variant = "handler" /\ ALLOWLIST = {} /\ DRY_RUN = FALSE /\ lanEnabled = FALSE
    /\ now = 0
    /\ limiter = NewLimiter(Rps, 0)
    /\ \E cmd \in TransCmds : calls = Untranslated(cmd)

TransNext == Encode \/ Report \/ ReportVendor \/ Decode

TransSpec == TransInit /\ [][TransNext]_vars

----------------------------------------------------------------------------
(* adapters/cloud.ts on its own: callers of the CloudAdapter methods *)

\* number of clock steps of the adapter runs
CloudMaxTicks == 2
\* milliseconds the clock advances per step of the adapter runs
CloudTickMs == 60
\* the pause between two items of CloudAdapter.batch
BatchSpacingMs == 60

Callers == {1, 2}
\* GOVEE_API_KEY of the process a caller runs in
ApiKeys == {"key-1", "key-2"}
\* the texts of non-success answers
Bodies == {"", "invalid key key-1"}
CloudCmds == {BrightnessCmd(10), TurnCmd("on")}
CloudItems == {BatchItem("A", "M", cmd) : cmd \in CloudCmds}
\* the answers of the vendor: status, text and parsed JSON data
FailedAnswers == {[status |-> 500, body |-> b, data |-> <<>>] : b \in Bodies}
OkAnswers(datas) == {[status |-> 200, body |-> "", data |-> d] : d \in datas}

NoAnswer == [status |-> 0, body |-> "", data |-> <<>>]

\* an Error raised by an adapter method to its caller
Raised(msg) == [kind |-> "error", error |-> msg, thrown |-> TRUE, value |-> <<>>]

IdleCaller ==
    [fn |-> "none", pc |-> "idle", key |-> "", items |-> <<>>, idx |-> 0,
     http |-> <<>>, resp |-> NoAnswer, result |-> NoResult, wakeAt |-> 0]

\* mutant: the text of the answer is appended to the message
post_verbose(req, apiKey, res) ==
    IF ~ResOk(res.status)
    THEN [outcome |-> "throw",
          error |-> "Govee API error " \o ToString(res.status) \o ": " \o res.body]
    ELSE [outcome |-> "json", error |-> ""]

\* post(path, payload) once fetch has answered: throws on a non-success status
post(req, apiKey, res) ==
    IF ~ResOk(res.status)
    THEN [outcome |-> "throw", error |-> UpstreamError(res.status)]
    ELSE [outcome |-> "json", error |-> ""]

\* get(path) once fetch has answered
get(req, apiKey, res) ==
    IF ~ResOk(res.status)
    THEN [outcome |-> "throw", error |-> UpstreamError(res.status)]
    ELSE [outcome |-> "json", error |-> ""]

\* the caller state after control(ref, cmd) ran up to its return, throw or fetch
Controlling(st, ref, cmd) ==
    LET start == ControlStart("cloud", ref, cmd) IN
    CASE start.outcome = "return" -> [st EXCEPT !.pc = "returned"]
      [] start.outcome = "throw" ->
           [st EXCEPT !.pc = "done", !.result = Raised(start.error)]
      [] OTHER -> [st EXCEPT !.pc = "http", !.http = Append(@, start.request)]

\* after control() returned: batch pauses, a plain control call is over
Controlled(st) ==
    IF st.fn = "batch"
    THEN [st EXCEPT !.pc = "spacing", !.wakeAt = now + BatchSpacingMs]
    ELSE [st EXCEPT !.pc = "done", !.result = Ok(<<>>)]

\* the caller state after control() ran to its first suspension or its end
AfterControl(st) == IF st.pc = "returned" THEN Controlled(st) ELSE st

\* the for loop of CloudAdapter.batch from item idx on
BatchLoop(st, idx) ==
    IF idx > Len(st.items)
    THEN [st EXCEPT !.pc = "done", !.result = Ok(<<>>)]
    ELSE AfterControl(Controlling([st EXCEPT !.idx = idx],
                                  [deviceId |-> st.items[idx].deviceId,
                                   model |-> st.items[idx].model],
                                  st.items[idx].cmd))

\* CloudAdapter.control(ref, cmd)
CloudControl(c, apiKey, ref, cmd) ==
    /\ calls[c].pc = "idle"
    /\ calls' = [calls EXCEPT ![c] =
         AfterControl(Controlling([IdleCaller EXCEPT !.fn = "control", !.key = apiKey],
                                  ref, cmd))]
    /\ UNCHANGED <<config, now, limiter>>

\* CloudAdapter.batch(items)
CloudBatch(c, apiKey, items) ==
    /\ calls[c].pc = "idle"
    /\ calls' = [calls EXCEPT ![c] =
         LET st == [IdleCaller EXCEPT !.fn = "batch", !.key = apiKey, !.items = items]
         IN  IF DRY_RUN THEN [st EXCEPT !.pc = "done", !.result = Ok(<<>>)]
             ELSE BatchLoop(st, 1)]
    /\ UNCHANGED <<config, now, limiter>>

\* CloudAdapter.getState(ref)
CloudGetState(c, apiKey, ref) ==
    /\ calls[c].pc = "idle"
    /\ calls' = [calls EXCEPT ![c] =
         [IdleCaller EXCEPT !.fn = "getState", !.key = apiKey, !.pc = "http",
                            !.http = <<GetStateStart("cloud", ref).request>>]]
    /\ UNCHANGED <<config, now, limiter>>

\* CloudAdapter.listDevices()
CloudListDevices(c, apiKey) ==
    /\ calls[c].pc = "idle"
    /\ calls' = [calls EXCEPT ![c] =
         [IdleCaller EXCEPT !.fn = "listDevices", !.key = apiKey, !.pc = "http",
                            !.http = <<Request("GET", "/user/devices", NoRef, NoCap)>>]]
    /\ UNCHANGED <<config, now, limiter>>

\* fetch answers the request a caller waits for
CloudAnswer(c, res) ==
    LET st == calls[c]
        req == st.http[Len(st.http)]
        out == IF req.method = "GET" THEN get(req, st.key, res) ELSE post(req, st.key, res)
    IN  /\ st.pc = "http"
        /\ res.status = 200 =>
              res.data \in (CASE st.fn = "getState" -> StateResponses
                              [] st.fn = "listDevices" -> DeviceResponses
                              [] OTHER -> {<<>>})
        /\ calls' = [calls EXCEPT ![c] =
             CASE out.outcome = "throw" ->
                    [st EXCEPT !.pc = "done", !.resp = res, !.result = Raised(out.error)]
               [] st.fn = "getState" ->
                    [st EXCEPT !.pc = "done", !.resp = res, !.result = Ok(decode(res.data))]
               [] st.fn = "listDevices" ->
                    [st EXCEPT !.pc = "done", !.resp = res,
                               !.result = Ok(listDevices(res.data))]
               [] OTHER -> Controlled([st EXCEPT !.resp = res])]
        /\ UNCHANGED <<config, now, limiter>>

\* the setTimeout(r, 60) of batch fires: the loop goes on with the next item
BatchSpaced(c) ==
    /\ calls[c].pc = "spacing"
    /\ now >= calls[c].wakeAt
    /\ calls' = [calls EXCEPT ![c] = BatchLoop(calls[c], calls[c].idx + 1)]
    /\ UNCHANGED <<config, now, limiter>>

\* the method has returned or thrown to its caller, which may call again
CloudReturn(c) ==
    /\ calls[c].pc = "done"
    /\ calls' = [calls EXCEPT ![c] = IdleCaller]
    /\ UNCHANGED <<config, now, limiter>>

CloudTick ==
    /\ now + CloudTickMs <= CloudMaxTicks * CloudTickMs
    /\ now' = now + CloudTickMs
    /\ UNCHANGED <<config, limiter, calls>>

CloudInit ==
    /\ variant = "handler" /\ ALLOWLIST = {} /\ lanEnabled = FALSE
    /\ DRY_RUN \in BOOLEAN
    /\ now = 0
    /\ limiter = NewLimiter(Rps, 0)
    /\ calls = [c \in Callers |-> IdleCaller]

CloudNext ==
    \/ CloudTick
    \/ \E c \in Callers, k \in ApiKeys, cmd \in CloudCmds :
         CloudControl(c, k, [deviceId |-> "A", model |-> "M"], cmd)
    \/ \E c \in Callers, k \in ApiKeys, items \in SeqsUpTo(CloudItems, 2) :
         CloudBatch(c, k, items)
    \/ \E c \in Callers, k \in ApiKeys : CloudGetState(c, k, [deviceId |-> "A", model |-> "M"])
    \/ \E c \in Callers, k \in ApiKeys : CloudListDevices(c, k)
    \/ \E c \in Callers, res \in FailedAnswers \cup OkAnswers(StateResponses \cup DeviceResponses) :
         CloudAnswer(c, res)
    \/ \E c \in Callers : BatchSpaced(c)
    \/ \E c \in Callers : CloudReturn(c)

CloudSpec == CloudInit /\ [][CloudNext]_vars

----------------------------------------------------------------------------
(* adapters/lan.ts on its own: callers of the LanAdapter methods *)

\* LanAdapter.listDevices(): [] on both branches
LanListDevices(c) ==
    /\ calls[c].pc = "idle"
    /\ calls' = [calls EXCEPT ![c] =
                   [IdleCaller EXCEPT !.fn = "listDevices", !.pc = "done",
                                      !.result = Ok(<<>>)]]
    /\ UNCHANGED <<config, now, limiter>>

\* LanAdapter.getState(ref)
LanGetState(c, ref) ==
    /\ calls[c].pc = "idle"
    /\ calls' = [calls EXCEPT ![c] =
                   [IdleCaller EXCEPT !.fn = "getState", !.pc = "done",
                                      !.result = Raised(GetStateStart("lan", ref).error)]]
    /\ UNCHANGED <<config, now, limiter>>

\* LanAdapter.control(ref, cmd)
LanControl(c, ref, cmd) ==
    /\ calls[c].pc = "idle"
    /\ calls' = [calls EXCEPT ![c] =
                   [IdleCaller EXCEPT !.fn = "control", !.pc = "done",
                                      !.result = Raised(ControlStart("lan", ref, cmd).error)]]
    /\ UNCHANGED <<config, now, limiter>>

\* LanAdapter.batch(items): for (const it of items) await this.control(...)
LanBatch(c, items) ==
    /\ calls[c].pc = "idle"
    /\ calls' = [calls EXCEPT ![c] =
         [IdleCaller EXCEPT
            !.fn = "batch", !.pc = "done", !.items = items,
            !.idx = IF items = <<>> THEN 0 ELSE 1,
            !.result =
               IF items = <<>> THEN Ok(<<>>)
               ELSE Raised(ControlStart("lan",
                                        [deviceId |-> items[1].deviceId,
                                         model |-> items[1].model],
                                        items[1].cmd).error)]]
    /\ UNCHANGED <<config, now, limiter>>

\* the method has returned or thrown to its caller, which may call again
LanReturn(c) ==
    /\ calls[c].pc = "done"
    /\ calls' = [calls EXCEPT ![c] = IdleCaller]
    /\ UNCHANGED <<config, now, limiter>>

LanInit ==
    /\ variant = "handler" /\ ALLOWLIST = {}
    /\ DRY_RUN \in BOOLEAN
    /\ lanEnabled \in BOOLEAN
    /\ now = 0
    /\ limiter = NewLimiter(Rps, 0)
    /\ calls = [c \in Callers |-> IdleCaller]

LanNext ==
    \/ \E c \in Callers : LanListDevices(c)
    \/ \E c \in Callers : LanGetState(c, [deviceId |-> "A", model |-> "M"])
    \/ \E c \in Callers, cmd \in CloudCmds :
         LanControl(c, [deviceId |-> "A", model |-> "M"], cmd)
    \/ \E c \in Callers, items \in SeqsUpTo(CloudItems, 2) : LanBatch(c, items)
    \/ \E c \in Callers : LanReturn(c)

LanSpec == LanInit /\ [][LanNext]_vars

----------------------------------------------------------------------------
(* two batch calls of two clients, one arriving during the window of the other *)

WinMaxTicks == 4
WinTickMs == 60

\* two requests the server handles at the same time
WinSlots == {1, 2}

\* the item lists of the two clients: one brightness command for device A
WinBatches ==
    { <<BatchItem("A", "M", BrightnessCmd(10))>>,
      <<BatchItem("A", "M", BrightnessCmd(90))>> }

\* the wall clock advances
WinTick ==
    /\ now + WinTickMs <= WinMaxTicks * WinTickMs
    /\ now' = now + WinTickMs
    /\ UNCHANGED <<config, limiter, calls>>

WinInit ==
    /\ variant \in Variants
    /\ ALLOWLIST = {} /\ DRY_RUN = FALSE /\ lanEnabled = FALSE
    /\ now = 0
    /\ limiter = NewLimiter(Rps, 0)
    /\ calls = [c \in WinSlots |-> IdleCall]

WinNext ==
    \/ WinTick
    \/ \E c \in WinSlots, items \in WinBatches : Batch(c, items)
    \/ \E c \in WinSlots : Return(c)
    \/ \E c \in WinSlots : TakeRetry(c)
    \/ \E c \in WinSlots : Dispatch(c)
    \/ \E c \in WinSlots, d \in Devices : WindowElapsed(c, d)
    \/ \E c \in WinSlots, d \in Devices : GroupSend(c, d)
    \/ \E c \in WinSlots, d \in Devices, st \in Statuses : GroupRespond(c, d, st)

WinSpec == WinInit /\ [][WinNext]_vars

----------------------------------------------------------------------------
(* Properties *)

SingleTools == {"get_state"} \cup SetTools

\* the call of slot c names a device the allowlist excludes
Disallowed(call) == ALLOWLIST # {} /\ call.args.deviceId \notin ALLOWLIST

\* a numeric argument of the call lies outside the range the interface declares:
\* percent 0..100, r, g, b 0..255, kelvin 1000..10000 (percent, kelvin in tenths)
OutOfRange(call) ==
    CASE call.name = "set_brightness" -> call.args.percent < 0 \/ call.args.percent > 1000
      [] call.name = "set_color" ->
           \E v \in {call.args.r, call.args.g, call.args.b} : v < 0 \/ v > 255
      [] call.name = "set_color_temp" -> call.args.kelvin < 10000 \/ call.args.kelvin > 100000
      [] OTHER -> FALSE

\* C1: with a non-empty allowlist every getState and control call handed to an
\* adapter, and every request sent for one, names a deviceId of the allowlist,
\* on the single-device path and on the batch path
C1_BackendCallsAllowed ==
    ALLOWLIST # {} =>
      \A c \in Slots :
        /\ \A i \in DOMAIN calls[c].sent :
             calls[c].sent[i].fn \in {"getState", "control"}
               => calls[c].sent[i].deviceId \in ALLOWLIST
        /\ \A i \in DOMAIN calls[c].http :
             calls[c].http[i].method = "POST" => calls[c].http[i].device \in ALLOWLIST

\* a batch that carried a disallowed item has handed a control call to an adapter
C1_Witness ==
    \E c \in Slots :
      /\ calls[c].name = "batch"
      /\ ALLOWLIST # {}
      /\ \E i \in DOMAIN calls[c].args.items : calls[c].args.items[i].deviceId \notin ALLOWLIST
      /\ \E i \in DOMAIN calls[c].sent : calls[c].sent[i].fn = "control"

\* C2 as stated: a single-device tool called on a disallowed device ends in the
\* authorization failure and nothing is handed to an adapter or sent
C2_Original ==
    \A c \in Slots :
      (calls[c].name \in SingleTools /\ Disallowed(calls[c]))
        => /\ calls[c].pc = "done"
           /\ calls[c].result.kind = "error"
           /\ calls[c].result.error = "Device not allowed"
           /\ calls[c].sent = <<>> /\ calls[c].http = <<>>

\* C2 (amended): a single-device tool called on a disallowed device ends in a
\* failure and nothing is handed to an adapter or sent; the failure is the
\* authorization failure unless a numeric argument is out of range and the
\* registerTool schema rejects the call first
C2_DisallowedFails ==
    \A c \in Slots :
      (calls[c].name \in SingleTools /\ Disallowed(calls[c]))
        => /\ calls[c].pc = "done"
           /\ calls[c].result.kind = "error"
           /\ calls[c].sent = <<>> /\ calls[c].http = <<>>
           /\ calls[c].result.error =
                IF variant = "registerTool" /\ OutOfRange(calls[c])
                THEN ValidationError ELSE "Device not allowed"

\* a set_* call with arguments in range on a disallowed device has failed
C2_Witness ==
    \E c \in Slots :
      /\ calls[c].name \in SetTools /\ Disallowed(calls[c]) /\ ~OutOfRange(calls[c])
      /\ calls[c].result.error = "Device not allowed"

\* the indices of the answered device array whose device passes the allowlist
KeptIdx(data) == {i \in DOMAIN data : ALLOWLIST = {} \/ data[i].device \in ALLOWLIST}
\* the j-th smallest member of a set of indices
Nth(S, j) == CHOOSE i \in S : Cardinality({x \in S : x < i}) = j - 1

\* C3: list_devices returns, in the order of the answer, exactly the devices of
\* the answer whose deviceId passes the allowlist (all of them when it is empty)
C3_ListFiltered ==
    \A c \in Slots :
      (calls[c].name = "list_devices" /\ calls[c].result.kind = "ok")
        => LET data == calls[c].resp
               out == calls[c].result.value
           IN  /\ Len(out) = Cardinality(KeptIdx(data))
               /\ \A j \in DOMAIN out :
                    /\ out[j].deviceId = data[Nth(KeptIdx(data), j)].device
                    /\ out[j].model = data[Nth(KeptIdx(data), j)].sku
               /\ (ALLOWLIST = {} => Len(out) = Len(data))

\* allowlist {A}: an answer listing A and B came back and A alone is returned
C3_Witness ==
    \E c \in Slots :
      /\ calls[c].name = "list_devices" /\ calls[c].result.kind = "ok"
      /\ ALLOWLIST = {"A"}
      /\ Len(calls[c].resp) = 2
      /\ Len(calls[c].result.value) = 1
      /\ calls[c].result.value[1].deviceId = "A"

\* C4 as stated, for the devices the allowlist admits (C5 is the disallowed
\* case): every set_brightness, set_color and set_color_temp call with a value
\* outside its range fails with the validation error, and nothing is handed to
\* an adapter or sent for it
C4_OutOfRangeRejected ==
    \A c \in Slots :
      (calls[c].name \in {"set_brightness", "set_color", "set_color_temp"}
         /\ OutOfRange(calls[c]) /\ ~Disallowed(calls[c]))
        => /\ calls[c].sent = <<>> /\ calls[c].http = <<>>
           /\ calls[c].pc = "done" => calls[c].result.error = ValidationError

\* C5 as stated: an out-of-range call on a disallowed device fails with the
\* validation error, not the authorization error, and takes no token
C5_ValidationFirst ==
    \A c \in Slots :
      (calls[c].name \in SingleTools /\ OutOfRange(calls[c]) /\ Disallowed(calls[c]))
        => /\ calls[c].result.error = ValidationError
           /\ calls[c].taken = 0

\* the composite key of the data model: (deviceId, model, command kind)
Triple(it) == <<it.deviceId, it.model, it.cmd.name>>
SameItem(a, b) ==
    /\ a.deviceId = b.deviceId /\ a.model = b.model
    /\ a.cmd.name = b.cmd.name /\ a.cmd.value = b.cmd.value
\* first and last index of list A at which F (Triple or key) takes the value v
FirstAt(A, F(_), v) == CHOOSE i \in DOMAIN A : F(A[i]) = v /\ \A k \in 1..(i - 1) : F(A[k]) # v
LastAt(A, F(_), v) == CHOOSE i \in DOMAIN A : F(A[i]) = v /\ \A k \in (i + 1)..Len(A) : F(A[k]) # v
\* the place of an adapter call's command in list D
PlaceIn(D, e) == CHOOSE j \in DOMAIN D : SameItem(D[j], e)

\* a batch call that has passed the allowlist filter and the coalescing
Coalesced(call) == call.name = "batch" /\ call.allowed # <<>>

\* C6 as stated: the deduplicated list holds one item per distinct
\* (deviceId, model, kind) of the allowed items, namely the last occurrence of
\* it, and the items are ordered by the first appearance of their triples
C6_OnePerTriple ==
    \A c \in Slots :
      Coalesced(calls[c]) =>
        LET A == calls[c].allowed
            D == calls[c].deduped
        IN  /\ Len(D) = Cardinality({Triple(A[i]) : i \in DOMAIN A})
            /\ \A j \in DOMAIN D : SameItem(D[j], A[LastAt(A, Triple, Triple(D[j]))])
            /\ \A j, k \in DOMAIN D :
                 j < k => FirstAt(A, Triple, Triple(D[j])) < FirstAt(A, Triple, Triple(D[k]))

\* C7 as stated (its ordering half): of two surviving items of one device (the
\* same deviceId and model), the one whose surviving, last occurrence comes
\* earlier in the submitted list comes earlier in the deduplicated list
C7_Original ==
    \A c \in Slots :
      Coalesced(calls[c]) =>
        LET A == calls[c].allowed
            D == calls[c].deduped
        IN  \A j, k \in DOMAIN D :
              (D[j].deviceId = D[k].deviceId /\ D[j].model = D[k].model
                 /\ LastAt(A, Triple, Triple(D[j])) < LastAt(A, Triple, Triple(D[k])))
                => j < k

\* C7 (amended): two commands of different kinds for one device never replace
\* each other, each survives under its own key deviceId:model:kind; the
\* surviving items of one device are ordered by the FIRST appearance of their
\* keys in the submitted list, and are handed to the adapter in that order
C7_FirstAppearanceOrder ==
    \A c \in Slots :
      Coalesced(calls[c]) =>
        LET A == calls[c].allowed
            D == calls[c].deduped
            S == calls[c].sent
        IN  /\ \A x, y \in DOMAIN A :
                 (A[x].deviceId = A[y].deviceId /\ A[x].cmd.name # A[y].cmd.name)
                   => \E j, k \in DOMAIN D :
                        j # k /\ key(D[j]) = key(A[x]) /\ key(D[k]) = key(A[y])
            /\ \A j, k \in DOMAIN D :
                 (D[j].deviceId = D[k].deviceId
                    /\ FirstAt(A, key, key(D[j])) < FirstAt(A, key, key(D[k])))
                   => j < k
            /\ \A x, y \in DOMAIN S :
                 (x < y /\ S[x].deviceId = S[y].deviceId)
                   => FirstAt(A, key, key(S[x])) < FirstAt(A, key, key(S[y]))

\* brightness, colour, brightness again for one device: the later brightness
\* took the first place, and both survivors have been handed over in that order
C7_Witness ==
    \E c \in Slots :
      /\ Coalesced(calls[c])
      /\ Len(calls[c].allowed) = 3 /\ Len(calls[c].deduped) = 2
      /\ calls[c].allowed[2].cmd.name = "color"
      /\ calls[c].allowed[3].cmd.name = "brightness"
      /\ calls[c].deduped[1].cmd.name = "brightness"
      /\ calls[c].deduped[1].cmd.value = calls[c].allowed[3].cmd.value
      /\ calls[c].deduped[2].cmd.name = "color"
      /\ Len(calls[c].sent) = 2

\* a batch of at least one item, each a BatchItem of the data model
ProperBatch(call) == call.name = "batch" /\ call.pc # "idle" /\ ValidBatch(call.args.items)
NoneAllowed(items) ==
    ALLOWLIST # {} /\ \A i \in DOMAIN items : items[i].deviceId \notin ALLOWLIST

\* C8: a batch whose every item names a disallowed device fails as a whole with
\* the empty-batch error, hands nothing to an adapter, sends nothing and takes
\* no token; a batch with an allowed item never ends in the empty-batch or the
\* authorization error, and none of its disallowed items is kept or handed over
C8_BatchFilter ==
    \A c \in Slots :
      ProperBatch(calls[c]) =>
        IF NoneAllowed(calls[c].args.items)
        THEN /\ calls[c].pc = "done"
             /\ calls[c].result.kind = "error"
             /\ calls[c].result.error = "No allowed items"
             /\ calls[c].sent = <<>> /\ calls[c].http = <<>>
             /\ calls[c].taken = 0
        ELSE /\ calls[c].result.error \notin {"No allowed items", "Device not allowed"}
             /\ \A j \in DOMAIN calls[c].deduped :
                  ALLOWLIST # {} => calls[c].deduped[j].deviceId \in ALLOWLIST
             /\ \A j \in DOMAIN calls[c].sent :
                  ALLOWLIST # {} => calls[c].sent[j].deviceId \in ALLOWLIST

\* a batch of two items, both of a disallowed device, has failed
C8_Witness ==
    \E c \in Slots :
      /\ ProperBatch(calls[c])
      /\ Len(calls[c].args.items) = 2
      /\ NoneAllowed(calls[c].args.items)
      /\ calls[c].result.error = "No allowed items"

\* C9: a batch that reports success has handed to the adapters exactly one
\* control call per item of the deduplicated list, each completed, and nothing
\* else: every call carries an allowed item that no later allowed item of the
\* same key replaces
C9_ExactlyOnce ==
    \A c \in Slots :
      (calls[c].name = "batch" /\ calls[c].result.kind = "ok") =>
        LET D == calls[c].deduped
            S == calls[c].sent
            I == calls[c].args.items
        IN  /\ Len(S) = Len(D)
            /\ \A j \in DOMAIN D :
                 Cardinality({i \in DOMAIN S : SameItem(S[i], D[j])}) = 1
            /\ \A i \in DOMAIN S :
                 /\ S[i].fn = "control" /\ S[i].status = "ok"
                 /\ ALLOWLIST = {} \/ S[i].deviceId \in ALLOWLIST
                 /\ \E x \in DOMAIN I :
                      /\ SameItem(I[x], S[i])
                      /\ \A y \in (x + 1)..Len(I) :
                           (ALLOWLIST = {} \/ I[y].deviceId \in ALLOWLIST)
                             => key(I[y]) # key(I[x])

\* three items were submitted, one was coalesced away, the batch succeeded
C9_Witness ==
    \E c \in Slots :
      /\ calls[c].name = "batch" /\ calls[c].result.kind = "ok"
      /\ Len(calls[c].args.items) = 3
      /\ Len(calls[c].sent) = 2
      /\ calls[c].result.value.commands = 2

\* C10: within one batch call the control calls of one device are made one at
\* a time, in the order of the device's items in the deduplicated list: when a
\* call is handed over, every earlier call of the same device has completed
C10_OneAtATime ==
    \A c \in Slots :
      calls[c].name = "batch" =>
        LET D == calls[c].deduped
            S == calls[c].sent
        IN  \A x, y \in DOMAIN S :
              (x < y /\ S[x].deviceId = S[y].deviceId)
                => /\ S[x].status = "ok"
                   /\ PlaceIn(D, S[x]) < PlaceIn(D, S[y])

\* the second command of a device is in flight and the first has completed
C10_Witness ==
    \E c \in Slots :
      /\ calls[c].name = "batch"
      /\ \E x, y \in DOMAIN calls[c].sent :
           /\ x < y
           /\ calls[c].sent[x].deviceId = calls[c].sent[y].deviceId
           /\ calls[c].sent[x].status = "ok"
           /\ calls[c].sent[y].status = "inflight"

\* the call passes validation and authorization
Passes(call) ==
    CASE call.name = "list_devices" -> TRUE
      [] call.name \in SingleTools -> ~Disallowed(call) /\ ~OutOfRange(call)
      [] call.name = "batch" -> ValidBatch(call.args.items) /\ ~NoneAllowed(call.args.items)
      [] OTHER -> FALSE

\* the call is past its await limiter.take()
PastTake(call) == call.pc \in {"admitted", "http", "fanout", "done"}

\* C11: an invocation that passes validation and authorization has consumed
\* exactly one token once it is past the limiter, however many adapter calls and
\* requests it then makes; the step that admits it lowers the refilled token
\* count by exactly one token, and no other step of a call lowers the count
C11_OneTokenPerCall ==
    /\ [](\A c \in Slots :
            (Passes(calls[c]) /\ PastTake(calls[c])) => calls[c].taken = 1)
    /\ [][\A c \in Slots :
            IF ~PastTake(calls[c]) /\ PastTake(calls'[c]) /\ calls'[c].taken > 0
            THEN /\ calls'[c].taken = 1
                 /\ limiter'.tokens =
                      Min(limiter.capacity * TokenUnit,
                          limiter.tokens + (now - limiter.last) * limiter.refillRatePerSec)
                        - TokenUnit
            ELSE limiter'.tokens >= limiter.tokens]_vars

\* a batch of two devices has sent two requests and succeeded on one token
C11_Witness ==
    \E c \in Slots :
      /\ calls[c].name = "batch" /\ calls[c].result.kind = "ok"
      /\ Cardinality(DOMAIN calls[c].groups) = 2
      /\ Len(calls[c].http) = 2
      /\ calls[c].taken = 1

\* the callers that have invoked take(), and those to which it has returned
Called == {w \in Waiters : calls[w].pc # "idle"}
Returned == {w \in Waiters : calls[w].pc = "returned"}

\* the limiter was built with rps = 5 and every take() so far was invoked at the
\* instant it was built
FreshBurst ==
    /\ limiter.refillRatePerSec = 5
    /\ \A w \in Called : calls[w].calledAt = 0

\* C12: on a limiter built with rps = 5, the first five take() invoked at that
\* instant return at once, never suspended; a sixth invoked at that instant does
\* not return before 200 ms have passed since the fifth token was taken (at
\* instant 0), and the first of its loop iterations that runs after 200 ms or
\* more returns
C12_BurstThenWait ==
    /\ [](FreshBurst =>
            /\ \A w \in Called :
                 w <= 5 => calls[w].pc = "returned" /\ calls[w].grantedAt = 0
            /\ \A w \in Called :
                 (w = 6 /\ calls[w].pc = "returned") => calls[w].grantedAt >= 200)
    /\ [][(FreshBurst /\ Cardinality(Called) = 6 /\ calls[6].pc = "take"
              /\ now >= 200 /\ calls'[6] # calls[6])
            => calls'[6].pc = "returned"]_vars

\* six take() at instant 0 on an rps = 5 limiter: the sixth has returned
C12_Witness ==
    /\ FreshBurst /\ Cardinality(Called) = 6
    /\ \A w \in 1..5 : calls[w].grantedAt = 0
    /\ calls[6].pc = "returned" /\ calls[6].grantedAt = 200

\* C13: between any two admissions, at instants t1 <= t2, the number of
\* admissions granted in [t1, t2] is at most capacity + rps * (t2 - t1) / 1000,
\* capacity = max(1, rps), for every interleaving of the callers
C13_WindowBound ==
    \A a, b \in Returned :
      calls[a].grantedAt <= calls[b].grantedAt =>
        Cardinality({w \in Returned : /\ calls[a].grantedAt <= calls[w].grantedAt
                                      /\ calls[w].grantedAt <= calls[b].grantedAt})
            * TokenUnit
          <= Max(1, limiter.refillRatePerSec) * TokenUnit
               + limiter.refillRatePerSec * (calls[b].grantedAt - calls[a].grantedAt)

\* two callers waited for the same refilled token: one has it, the other still waits
C13_Witness ==
    \E a, b \in Waiters :
      /\ a # b
      /\ calls[a].pc = "returned" /\ calls[a].grantedAt > calls[a].calledAt
      /\ calls[b].pc = "take" /\ calls[b].calledAt < calls[a].grantedAt
      /\ calls[b].wakeAt = calls[a].grantedAt + RetryMs

\* the capability the encoding table of the interface gives for a command
TableType(cmd) ==
    CASE cmd.name = "turn" -> "devices.capabilities.on_off"
      [] cmd.name = "brightness" -> "devices.capabilities.range"
      [] cmd.name = "color" -> "devices.capabilities.color_setting"
      [] cmd.name = "colorTem" -> "devices.capabilities.color_setting"
      [] cmd.name = "scene" -> "devices.capabilities.dynamic_scene"
TableInstance(cmd) ==
    CASE cmd.name = "turn" -> "powerSwitch"
      [] cmd.name = "brightness" -> "brightness"
      [] cmd.name = "color" -> "colorRgb"
      [] cmd.name = "colorTem" -> "colorTemperatureK"
      [] cmd.name = "scene" -> "lightScene"
TableValue(cmd) ==
    CASE cmd.name = "turn" -> IF cmd.value = "on" THEN 1 ELSE 0
      [] cmd.name = "color" -> cmd.value.r * 65536 + cmd.value.g * 256 + cmd.value.b
      [] OTHER -> cmd.value

\* C16: the capability built for a command is the one of the fixed table: turn
\* -> (on_off, powerSwitch, 1 for on, 0 for off), brightness -> (range,
\* brightness, the value), color -> (color_setting, colorRgb, r*65536 + g*256 +
\* b), colorTem -> (color_setting, colorTemperatureK, the value), scene ->
\* (dynamic_scene, lightScene, the string)
C16_EncodingTable ==
    calls.pc # "cmd" =>
      /\ calls.envelope.type = TableType(calls.cmd)
      /\ calls.envelope.instance = TableInstance(calls.cmd)
      /\ calls.envelope.value = TableValue(calls.cmd)

\* color (10, 20, 30) has been encoded to 660510
C16_Witness ==
    /\ calls.pc = "encoded"
    /\ calls.cmd.name = "color"
    /\ calls.cmd.value = [r |-> 10, g |-> 20, b |-> 30]
    /\ calls.envelope.value = 660510

\* C17: for r, g, b in 0..255 the packed colour lies in 0..16777215 and decoding
\* it gives back exactly (r, g, b)
C17_ColorRoundTrip ==
    (calls.cmd.name = "color" /\ calls.pc # "cmd") =>
      /\ calls.envelope.value \in 0..16777215
      /\ calls.pc = "decoded" =>
           /\ "color" \in DOMAIN calls.state
           /\ calls.state["color"] = calls.cmd.value

\* color (255, 128, 1) went through encoding and decoding and came back
C17_Witness ==
    /\ calls.pc = "decoded"
    /\ calls.cmd.name = "color"
    /\ calls.cmd.value = [r |-> 255, g |-> 128, b |-> 1]
    /\ calls.state["color"] = [r |-> 255, g |-> 128, b |-> 1]

\* the State field that holds the value of a command
StateField(cmd) == IF cmd.name = "turn" THEN "power" ELSE cmd.name

\* C18 as stated: for every valid command of the five variants, decoding the
\* one-element array that holds its encoded capability gives a State whose
\* corresponding field is present and equals the command's value
C18_RoundTrip ==
    calls.pc = "decoded" =>
      /\ StateField(calls.cmd) \in DOMAIN calls.state
      /\ calls.state[StateField(calls.cmd)] = calls.cmd.value

\* the gateway operations that write to a device
WriteTools == SetTools \cup {"batch"}

\* C15 as stated: with dry-run on, every write operation with valid arguments
\* on allowed devices that has ended has ended in success, whatever the other
\* configuration flags
C15_Original ==
    \A c \in Slots :
      (DRY_RUN /\ calls[c].name \in WriteTools /\ Passes(calls[c]) /\ calls[c].pc = "done")
        => calls[c].result.kind = "ok"

\* C15 (amended): with dry-run on, a write operation with valid arguments on
\* allowed devices sends no request; when LAN routing is off it never fails and
\* ends in success, and when LAN routing is on it ends in the failure of the
\* LAN adapter, "LAN control not implemented"
C15_DryRunSucceeds ==
    \A c \in Slots :
      (DRY_RUN /\ calls[c].name \in WriteTools /\ Passes(calls[c])) =>
        /\ calls[c].http = <<>>
        /\ calls[c].result.kind # "none" =>
             IF lanEnabled
             THEN calls[c].result.error = "LAN control not implemented"
             ELSE calls[c].result.kind = "ok"
        /\ (calls[c].pc = "done" /\ ~lanEnabled) =>
             /\ calls[c].result.kind = "ok"
             /\ calls[c].sent # <<>>
             /\ \A i \in DOMAIN calls[c].sent : calls[c].sent[i].status = "ok"

\* dry-run on, LAN off: a batch has handed two commands to the Cloud adapter,
\* sent nothing and succeeded
C15_Witness ==
    \E c \in Slots :
      /\ DRY_RUN /\ ~lanEnabled
      /\ calls[c].name = "batch" /\ calls[c].result.kind = "ok"
      /\ Len(calls[c].sent) = 2
      /\ calls[c].http = <<>>

\* C19 as stated: every call that has ended has ended in a result returned by
\* the tool, success or structured failure; no Error leaves the tool uncaught
C19_Enveloped ==
    \A c \in Slots :
      calls[c].pc = "done" =>
        /\ calls[c].result.kind \in {"ok", "error"}
        /\ ~calls[c].result.thrown

\* C14: with dry-run on, no call of CloudAdapter.control or CloudAdapter.batch,
\* for any command and any item list, issues a request or waits for an answer
C14_DryRunNoNetwork ==
    DRY_RUN =>
      \A c \in Callers :
        calls[c].fn \in {"control", "batch"} =>
          /\ calls[c].http = <<>>
          /\ calls[c].pc = "done"
          /\ calls[c].result.kind = "ok"

\* dry-run on: a control call and a batch of two items have both returned
\* success and nothing was sent
C14_Witness ==
    /\ DRY_RUN
    /\ calls[1].fn = "control" /\ calls[1].pc = "done" /\ calls[1].http = <<>>
    /\ calls[2].fn = "batch" /\ calls[2].pc = "done" /\ calls[2].http = <<>>
    /\ Len(calls[2].items) = 2

\* the call ended on a non-success answer
FailedOn(st) == st.pc = "done" /\ st.resp.status # 0 /\ ~ResOk(st.resp.status)

\* C20: two calls that ended on non-success answers of the same status raised
\* the same message, whatever the texts of the answers, the requests (GET or
\* POST, any payload) and the API keys
C20_StatusOnly ==
    \A c, d \in Callers :
      (FailedOn(calls[c]) /\ FailedOn(calls[d])
         /\ calls[c].resp.status = calls[d].resp.status)
        => /\ calls[c].result.kind = "error" /\ calls[d].result.kind = "error"
           /\ calls[c].result.error = calls[d].result.error

\* a GET and a POST with different keys failed with status 500 and different
\* texts, and raised the same message
C20_Witness ==
    /\ FailedOn(calls[1]) /\ FailedOn(calls[2])
    /\ calls[1].fn = "listDevices" /\ calls[2].fn = "control"
    /\ calls[1].key # calls[2].key
    /\ calls[1].resp.status = 500 /\ calls[2].resp.status = 500
    /\ calls[1].resp.body # calls[2].resp.body
    /\ calls[1].result.error = "Govee API error 500: Request failed"

\* C21 as stated: a successful batch reports commands = the number of distinct
\* (deviceId, model, kind) among the allowed items and devices = the number of
\* distinct deviceIds among them, and 1 <= devices <= commands <= submitted items
C21_ReportedCounts ==
    \A c \in Slots :
      (calls[c].name = "batch" /\ calls[c].result.kind = "ok") =>
        LET A == calls[c].allowed
            v == calls[c].result.value
        IN  /\ v.commands = Cardinality({Triple(A[i]) : i \in DOMAIN A})
            /\ v.devices = Cardinality({A[i].deviceId : i \in DOMAIN A})
            /\ 1 <= v.devices /\ v.devices <= v.commands
            /\ v.commands <= Len(calls[c].args.items)

\* the adapter calls that go through pickAdapter
Routed(e) == e.fn \in {"getState", "control"}

\* C22: every getState and control call is handed to the LAN adapter when the
\* LAN flag is on and to the Cloud adapter when it is off, whatever the device,
\* and so are the device tasks of a batch: two routed calls of one run never
\* differ in their adapter
C22_StaticRouting ==
    \A c \in Slots :
      /\ \A i \in DOMAIN calls[c].sent :
           Routed(calls[c].sent[i]) =>
             calls[c].sent[i].ad = (IF lanEnabled THEN "lan" ELSE "cloud")
      /\ \A d \in DOMAIN calls[c].groups :
           calls[c].groups[d].ad = (IF lanEnabled THEN "lan" ELSE "cloud")
      /\ \A i, j \in DOMAIN calls[c].sent :
           (Routed(calls[c].sent[i]) /\ Routed(calls[c].sent[j]))
             => calls[c].sent[i].ad = calls[c].sent[j].ad

\* LAN on: control calls for two different devices both went to the LAN adapter
C22_Witness ==
    \E c \in Slots :
      /\ lanEnabled
      /\ \E i, j \in DOMAIN calls[c].sent :
           /\ calls[c].sent[i].deviceId # calls[c].sent[j].deviceId
           /\ calls[c].sent[i].ad = "lan" /\ calls[c].sent[j].ad = "lan"

\* C23 as stated: LanAdapter.getState fails with its unimplemented error;
\* control and batch fail for every input, item lists of length 0 included,
\* with the disabled error when the flag is off and the unimplemented error
\* when it is on; listDevices returns the empty list in both flag states
C23_LanNeverSucceeds ==
    \A c \in Callers :
      calls[c].pc = "done" =>
        CASE calls[c].fn = "getState" ->
               calls[c].result.error = "LAN getState not implemented"
          [] calls[c].fn \in {"control", "batch"} ->
               /\ calls[c].result.kind = "error"
               /\ calls[c].result.error =
                    (IF lanEnabled THEN "LAN control not implemented" ELSE "LAN disabled")
          [] OTHER ->
               calls[c].result.kind = "ok" /\ calls[c].result.value = <<>>

\* C24: every adapter call and every request made for a gateway operation is
\* made after that operation's own limiter.take() has returned: a call that
\* has handed anything to an adapter has taken its token, and the step that
\* hands something over starts from a state in which the token is already taken
C24_AdmitBeforeNetwork ==
    /\ [](\A c \in Slots :
            (calls[c].sent # <<>> \/ calls[c].http # <<>>)
              => calls[c].taken = 1 /\ PastTake(calls[c]))
    /\ [][\A c \in Slots :
            (Len(calls'[c].sent) > Len(calls[c].sent)
               \/ Len(calls'[c].http) > Len(calls[c].http))
              => calls[c].taken = 1 /\ PastTake(calls[c])]_vars

\* a call that had to wait for a token has sent its request after taking it
C24_Witness ==
    \E c \in Slots :
      /\ calls[c].wakeAt > 0
      /\ calls[c].name \in SetTools
      /\ calls[c].taken = 1
      /\ Len(calls[c].http) = 1

\* C25 as stated: two allowed items whose (deviceId, model, kind) differ in a
\* component are never coalesced into one, also when an identifier or a model
\* contains ':': each of the two triples keeps an item of its own in the
\* deduplicated list
C25_OpaqueIdentifiers ==
    \A c \in Slots :
      Coalesced(calls[c]) =>
        LET A == calls[c].allowed
            D == calls[c].deduped
        IN  \A x, y \in DOMAIN A :
              Triple(A[x]) # Triple(A[y]) =>
                \E j, k \in DOMAIN D :
                  /\ j # k
                  /\ Triple(D[j]) = Triple(A[x])
                  /\ Triple(D[k]) = Triple(A[y])

\* the State field the decoding table gives for a (type, instance) pair, "none"
\* for a pair that is not in the table
KnownField(c) ==
    CASE c.type = "devices.capabilities.on_off" /\ c.instance = "powerSwitch" -> "power"
      [] c.type = "devices.capabilities.range" /\ c.instance = "brightness" -> "brightness"
      [] c.type = "devices.capabilities.color_setting" /\ c.instance = "colorRgb" -> "color"
      [] c.type = "devices.capabilities.color_setting"
           /\ c.instance = "colorTemperatureK" -> "colorTem"
      [] OTHER -> "none"

\* C26 as stated: a decoded State has a field only for an entry of the array
\* whose (type, instance) pair is a known pair, entries with an unrecognized
\* type or instance leave it unchanged (an on_off entry whose instance is not
\* powerSwitch does not set power), and the empty array decodes to the empty
\* State
C26_TableDrivenDecode ==
    calls.pc = "parsed" =>
      /\ DOMAIN calls.state
           = {KnownField(calls.caps[k]) : k \in DOMAIN calls.caps} \ {"none"}
      /\ calls.caps = <<>> => calls.state = <<>>

\* C27 as stated: once a batch call has its result, success or failure, every
\* device task of it is over: none waits on its window or is about to issue a
\* control call, and no control call of the batch is in flight
C27_JoinedBeforeReturn ==
    \A c \in Slots :
      (calls[c].name = "batch" /\ calls[c].pc = "done") =>
        /\ \A d \in DOMAIN calls[c].groups : ~GroupActive(calls[c].groups[d])
        /\ \A n \in DOMAIN calls[c].sent : calls[c].sent[n].status # "inflight"

\* the kinds of the commands of a device task
KindsOf(g) == {g.cmds[k].cmd.name : k \in DOMAIN g.cmds}

\* C28 as stated: when a batch call with a command for a device arrives while
\* an earlier batch call with a command of the same kind for that device is
\* still inside its coalescing window, the earlier call's command is absorbed:
\* the earlier call sends no command of that kind to the device
C28_WindowAbsorbs ==
    \A a, b \in WinSlots :
      \A d \in DOMAIN calls[a].groups \cap DOMAIN calls[b].groups :
        LET ga == calls[a].groups[d]
            gb == calls[b].groups[d]
        IN  (a # b /\ ga.wakeAt < gb.wakeAt /\ gb.wakeAt - BATCH_WINDOW_MS < ga.wakeAt)
              => \A n \in DOMAIN calls[a].sent :
                   ~(/\ calls[a].sent[n].deviceId = d
                     /\ calls[a].sent[n].cmd.name \in KindsOf(ga) \cap KindsOf(gb))

\* the control calls a batch call has issued for one device, in order of issue
SentFor(call, d) == SelectSeq(call.sent, LAMBDA e : e.deviceId = d)

\* C29: in a batch the device tasks exist only after the call's single
\* admission, each starts with its window wait at the time it is created, no
\* control call for a device is issued before the wait of its task is over,
\* and the calls issued for a device are the commands of its group, from the
\* first on, in the group's order
C29_GroupOrder ==
    /\ [](\A c \in Slots : \A d \in DOMAIN calls[c].groups :
            LET call == calls[c]
                g == call.groups[d]
                issued == SentFor(call, d)
            IN  /\ call.name = "batch" /\ call.taken = 1 /\ PastTake(call)
                /\ g.phase = "window" => issued = <<>>
                /\ issued # <<>> => now >= g.wakeAt
                /\ Len(issued) <= Len(g.cmds)
                /\ \A k \in DOMAIN issued :
                     /\ issued[k].fn = "control"
                     /\ issued[k].model = g.cmds[k].model
                     /\ issued[k].cmd.name = g.cmds[k].cmd.name
                     /\ issued[k].cmd.value = g.cmds[k].cmd.value)
    /\ [][\A c \in Slots :
            /\ \A d \in DOMAIN calls'[c].groups \ DOMAIN calls[c].groups :
                 /\ calls[c].pc = "admitted" /\ calls[c].taken = 1
                 /\ calls'[c].groups[d].phase = "window"
                 /\ calls'[c].groups[d].wakeAt = now + BATCH_WINDOW_MS
            /\ \A d \in DOMAIN calls[c].groups \cap DOMAIN calls'[c].groups :
                 Len(SentFor(calls'[c], d)) > Len(SentFor(calls[c], d))
                   => /\ calls[c].groups[d].phase = "ready"
                      /\ now >= calls[c].groups[d].wakeAt]_vars

\* a device task has sent its two commands, one after the other, after its
\* window was over
C29_Witness ==
    \E c \in Slots : \E d \in DOMAIN calls[c].groups :
      /\ calls[c].groups[d].phase = "done"
      /\ Len(calls[c].groups[d].cmds) = 2
      /\ Len(SentFor(calls[c], d)) = 2
      /\ \A n \in DOMAIN calls[c].sent : calls[c].sent[n].status = "ok"
      /\ now >= calls[c].groups[d].wakeAt

\* the position of a device task
Position(g) == <<g.phase, g.idx, g.cur>>

\* C30: the device tasks of a batch do not wait for one another. Whatever the
\* other tasks are doing, a task whose window is over can go on, a task that
\* is ready can issue its next control call (also while a call of another
\* device is in flight), and the call a task has in flight can be answered
\* (whichever of several calls in flight first); a step of one task leaves the
\* position of every other task as it is
C30_NoMutualOrdering ==
    /\ [](\A c \in Slots : \A d \in DOMAIN calls[c].groups :
            LET g == calls[c].groups[d] IN
            /\ (g.phase = "window" /\ now >= g.wakeAt) => ENABLED WindowElapsed(c, d)
            /\ g.phase = "ready" => ENABLED GroupSend(c, d)
            /\ g.phase = "inflight" =>
                 \A st \in Statuses : ENABLED GroupRespond(c, d, st))
    /\ [][\A c \in Slots :
            \A d, e \in DOMAIN calls[c].groups \cap DOMAIN calls'[c].groups :
              (d # e /\ Position(calls'[c].groups[d]) # Position(calls[c].groups[d]))
                => Position(calls'[c].groups[e]) = Position(calls[c].groups[e])]_vars

\* the control call of one device, issued first, is still in flight while the
\* task of another device, whose call was issued after it, has finished
C30_Witness ==
    \E c \in Slots : \E d, e \in DOMAIN calls[c].groups :
      /\ calls[c].groups[d].phase = "inflight"
      /\ calls[c].groups[d].cur = 1
      /\ calls[c].groups[e].phase = "done"
      /\ Len(SentFor(calls[c], e)) >= 1
      /\ \A n \in DOMAIN calls[c].sent :
           calls[c].sent[n].deviceId = e => calls[c].sent[n].status = "ok"

\* C31: admission keeps no queue. The loop iteration of any caller that runs
\* when the refilled bucket holds a token returns with that token, whoever else
\* is suspended and however long; a suspended caller whose timer is due and a
\* new caller can both run their iteration, so a call that started later can be
\* admitted before one that started earlier
C31_NoQueue ==
    /\ [](\A w \in Waiters :
            /\ (calls[w].pc = "take" /\ now >= calls[w].wakeAt) => ENABLED TakeWake(w)
            /\ (calls[w].pc = "idle" /\ \A v \in Waiters : v < w => calls[v].pc # "idle")
                 => ENABLED take(w))
    /\ [][\A w \in Waiters :
            (calls'[w] # calls[w] /\ Granted(limiter, now))
              => calls'[w].pc = "returned" /\ calls'[w].grantedAt = now]_vars

\* a caller that found the bucket empty is still suspended while a caller that
\* invoked take() after it was admitted at once
C31_Witness ==
    \E a, b \in Waiters :
      /\ calls[a].pc = "take"
      /\ calls[b].pc = "returned"
      /\ calls[a].calledAt < calls[b].calledAt
      /\ calls[b].grantedAt = calls[b].calledAt

\* take() returns to a caller other than w
AdmitsOther(w) ==
    \E v \in LiveCallers \ {w} : calls[v].pc # "returned" /\ calls'[v].pc = "returned"

\* C32 as stated: while the clock keeps advancing, every suspended take()
\* eventually returns, also when other callers keep calling take()
C32_Original ==
    \A w \in LiveCallers : (calls[w].pc = "take") ~> (calls[w].pc = "returned")

\* C32 (amended): while the clock keeps advancing, a suspended take() retries
\* after each fixed wait and eventually returns unless take() goes on returning
\* to other callers for ever: once the other callers are no longer admitted,
\* the call is admitted
C32_EventuallyAdmitted ==
    \A w \in LiveCallers :
      \/ (calls[w].pc = "take") ~> (calls[w].pc = "returned")
      \/ []<><<AdmitsOther(w)>>_vars

\* take() has returned to a caller that had found the bucket empty and waited
C32_Witness ==
    \E w \in LiveCallers :
      /\ calls[w].pc = "returned"
      /\ calls[w].calledAt < 0
      /\ calls[w].grantedAt = 0

\* the errors of the allowlist test
GuardErrors == {"Device not allowed", "No allowed items"}

\* C33: a call rejected by the allowlist test, a single-device call on a
\* disallowed device or a batch whose items are all disallowed, has taken no
\* token and made no adapter call, and the step that rejects it leaves the
\* limiter's token count and its last-check timestamp as they were
C33_RejectLeavesLimiter ==
    /\ [](\A c \in Slots :
            (calls[c].pc = "done" /\ calls[c].result.error \in GuardErrors) =>
              /\ calls[c].taken = 0
              /\ calls[c].sent = <<>> /\ calls[c].http = <<>>)
    /\ [][\A c \in Slots :
            (calls[c].pc # "done" /\ calls'[c].pc = "done"
               /\ calls'[c].result.error \in GuardErrors)
              => /\ calls[c].pc = "idle"
                 /\ limiter'.tokens = limiter.tokens
                 /\ limiter'.last = limiter.last]_vars

\* time has passed since the limiter was built and a batch whose items are all
\* disallowed has been rejected: the bucket is full and its timestamp is still
\* the instant of construction
C33_Witness ==
    \E c \in Slots :
      /\ calls[c].name = "batch" /\ calls[c].pc = "done"
      /\ calls[c].result.error = "No allowed items"
      /\ now > 0
      /\ limiter.last = 0
      /\ limiter.tokens = limiter.capacity * TokenUnit

\* C34 as stated: with the LAN flag on, every adapter call of every gateway
\* operation, list_devices included, goes to the LAN adapter and no request is
\* sent to the Cloud API
C34_LanOnly ==
    \A c \in Slots :
      lanEnabled =>
        /\ \A i \in DOMAIN calls[c].sent : calls[c].sent[i].ad = "lan"
        /\ calls[c].http = <<>>

\* C35: the bucket starts full; in every state 0 <= tokens <= capacity with
\* capacity = max(1, rps); a step lowers the token count only by consuming
\* exactly one token from a refilled count of at least one; and a loop
\* iteration that finds no token, and suspends its caller, does not lower it
C35_TokenBounds ==
    /\ limiter.tokens = limiter.capacity * TokenUnit
    /\ [](/\ limiter.capacity = Max(1, limiter.refillRatePerSec)
          /\ 0 <= limiter.tokens
          /\ limiter.tokens <= limiter.capacity * TokenUnit)
    /\ [][limiter'.tokens < limiter.tokens =>
            /\ Refill(limiter, now).tokens >= TokenUnit
            /\ limiter'.tokens = Refill(limiter, now).tokens - TokenUnit]_vars
    /\ [][\A w \in Waiters :
            (calls'[w] # calls[w] /\ calls'[w].pc = "take")
              => /\ limiter'.tokens >= limiter.tokens
                 /\ limiter'.tokens < TokenUnit]_vars

\* a retry found a fraction of a token: the caller is suspended again and the
\* fraction stays in the bucket
C35_Witness ==
    \E w \in Waiters :
      /\ calls[w].pc = "take"
      /\ calls[w].wakeAt = now + RetryMs
      /\ now > calls[w].calledAt
      /\ limiter.last = now
      /\ 0 < limiter.tokens /\ limiter.tokens < TokenUnit

\* C36: when a control call of a batch fails, it is the last call issued for
\* its device (the remaining commands of the group are not sent), the batch has
\* ended in failure, and nothing is undone: as long as the call is not over, no
\* issued call and no request is withdrawn and a command that was applied
\* stays applied
C36_PartialFailure ==
    /\ [](\A c \in Slots : \A d \in DOMAIN calls[c].groups :
            LET issued == SentFor(calls[c], d) IN
            \A k \in DOMAIN issued :
              issued[k].status = "failed" =>
                /\ k = Len(issued)
                /\ calls[c].groups[d].phase = "failed"
                /\ calls[c].pc = "done"
                /\ calls[c].result.kind = "error")
    /\ [][\A c \in Slots :
            (calls[c].name = "batch" /\ calls'[c].name = "batch") =>
              /\ Len(calls'[c].sent) >= Len(calls[c].sent)
              /\ Len(calls'[c].http) >= Len(calls[c].http)
              /\ \A n \in DOMAIN calls[c].sent :
                   calls[c].sent[n].status = "ok" => calls'[c].sent[n].status = "ok"]_vars

\* a batch has failed and every device task of it is over: one command was
\* applied, one failed, and a third was never sent
C36_Witness ==
    \E c \in Slots :
      /\ calls[c].name = "batch" /\ calls[c].pc = "done"
      /\ calls[c].result.kind = "error"
      /\ \A d \in DOMAIN calls[c].groups : ~GroupActive(calls[c].groups[d])
      /\ \E n \in DOMAIN calls[c].sent : calls[c].sent[n].status = "ok"
      /\ \E n \in DOMAIN calls[c].sent : calls[c].sent[n].status = "failed"
      /\ Len(calls[c].sent) < Len(calls[c].deduped)

============================================================================
